---- MODULE Spec2Model ----
(***************************************************************************)
(* SYNTHIUM: the 5-dimensional state vector, the built-in catalog, the     *)
(* similarity ranking, the scoring and classification engine, the          *)
(* transformation planner and the validation harness.                      *)
(*                                                                         *)
(* Numbers.  A Python float x is carried as the integer x * One, so the    *)
(* arithmetic of the model is exact decimal arithmetic on multiples of     *)
(* 1/One; the binary rounding of IEEE doubles is not modelled.  Two        *)
(* irrational quantities are carried exactly by an integer code:           *)
(*   - a distance d is carried as d^2 (in units of 1/One^2), and every     *)
(*     comparison of d with a constant is made on the squares;             *)
(*   - a similarity 1 - d/sqrt(5) is carried as -d^2, which orders         *)
(*     similarities exactly as the real numbers do (code 0 is 1.0).        *)
(* A rounded result (round(x, 3)) is a scalar again, a multiple of         *)
(* One/1000.                                                               *)
(*                                                                         *)
(* Strings that the code lower-cases are sequences of one-character        *)
(* strings; all other strings are opaque.                                  *)
(***************************************************************************)
EXTENDS Integers, Sequences, FiniteSets, TLC

VARIABLES
  phenomena,           \* SynthiumDatabase.phenomena: id -> Phenomenon, in insertion order
  user_states,         \* SynthiumDatabase.user_states: user_id -> list of states
  validation_results,  \* SynthiumValidator.validation_results
  user_sessions,       \* app.user_sessions: user_id -> list of session entries
  requests,            \* the /analyze requests in flight: request -> position of its handler
  active_connections,  \* ConnectionManager.active_connections: the list of websockets
  websockets,          \* the websockets opened: websocket -> position of its handler
  call                 \* the operation performed last: its name, arguments and return value

vars ==
  <<phenomena, user_states, validation_results, user_sessions, requests,
    active_connections, websockets, call>>

-----------------------------------------------------------------------------
(* Arithmetic helpers *)

\* the float 1.0 in fixed point
One == 10000

\* h hundredths, e.g. Pct(65) is 0.65
Pct(h) == h * (One \div 100)

Min(a, b) == IF b < a THEN b ELSE a

Max(a, b) == IF b > a THEN b ELSE a

Abs(x) == IF x < 0 THEN -x ELSE x

\* n / d rounded to the nearest integer, ties to the even one (d > 0)
RoundDiv(n, d) ==
  LET f == n \div d
      rem == n - f * d
  IN  IF 2 * rem < d THEN f
      ELSE IF 2 * rem > d THEN f + 1
      ELSE IF f % 2 = 0 THEN f ELSE f + 1

RECURSIVE IsqrtIn(_, _, _)
\* the largest k in lo..hi with k * k <= n (lo * lo <= n)
IsqrtIn(n, lo, hi) ==
  IF lo = hi THEN lo
  ELSE LET mid == (lo + hi + 1) \div 2
       IN  IF mid * mid <= n THEN IsqrtIn(n, mid, hi) ELSE IsqrtIn(n, lo, mid - 1)

\* floor of the square root of n, 0 <= n < 2^31
Isqrt(n) == IsqrtIn(n, 0, 46340)

\* the float 0.001 in fixed point
Milli == One \div 1000

\* round(x, 3) of a scalar x
round3(x) == RoundDiv(x * 1000, One) * Milli

\* round(d, 3) of a distance carried as q = d^2: the multiple of 0.001 nearest to
\* sqrt(q), as a scalar
round3_distance(q) == ((Isqrt(4 * q) + Milli) \div (2 * Milli)) * Milli

\* round(s, 3) of a similarity carried as -q: the multiple of 0.001 nearest to
\* 1 - sqrt(q / 5), as a scalar
round3_similarity(code) ==
  LET q == 0 - code
      k == Isqrt((4 * q) \div (5 * Milli * Milli))
  IN  One - ((k + 1) \div 2) * Milli

-----------------------------------------------------------------------------
(* src/synthium_core/vectors.py *)

Dims == <<"v", "R", "r", "C", "S">>

\* Clamp without the upper bound
ClampNoUpper(x) == Max(0, x)

\* max(0.0, min(1.0, x))
Clamp(x) == Max(0, Min(One, x))

\* the dataclass constructor followed by __post_init__
SynthiumVector(v, R, r, C, S) ==
  [v |-> Clamp(v), R |-> Clamp(R), r |-> Clamp(r), C |-> Clamp(C), S |-> Clamp(S)]

to_dict(vec) == [d \in {"v", "R", "r", "C", "S"} |-> round3(vec[d])]

\* from_dict with 0.0 for a missing field
from_dict_zero_default(data) ==
  LET get(k) == IF k \in DOMAIN data THEN data[k] ELSE 0
  IN  SynthiumVector(get("v"), get("R"), get("r"), get("C"), get("S"))

\* data.get(k, 0.5) for each field; data is a function from some of the keys to numbers
from_dict(data) ==
  LET get(k) == IF k \in DOMAIN data THEN data[k] ELSE One \div 2
  IN  SynthiumVector(get("v"), get("R"), get("r"), get("C"), get("S"))

\* distance_to without the entropy term
distance_to_four(a, b) ==
  (a.v - b.v) * (a.v - b.v) + (a.R - b.R) * (a.R - b.R) + (a.r - b.r) * (a.r - b.r)
    + (a.C - b.C) * (a.C - b.C)

\* distance_to counting only the fields in which the first vector is the larger
distance_to_one_sided(a, b) ==
  Max(0, a.v - b.v) * Max(0, a.v - b.v) + Max(0, a.R - b.R) * Max(0, a.R - b.R)
    + Max(0, a.r - b.r) * Max(0, a.r - b.r) + Max(0, a.C - b.C) * Max(0, a.C - b.C)
    + Max(0, a.S - b.S) * Max(0, a.S - b.S)

\* the Euclidean distance, carried as its square
distance_to(a, b) ==
  (a.v - b.v) * (a.v - b.v) + (a.R - b.R) * (a.R - b.R) + (a.r - b.r) * (a.r - b.r)
    + (a.C - b.C) * (a.C - b.C) + (a.S - b.S) * (a.S - b.S)

\* similarity_to returning the distance
similarity_as_distance(a, b) == distance_to(a, b)

\* 1.0 - distance / sqrt(5), carried as -distance^2
similarity_to(a, b) == 0 - distance_to(a, b)

PREDEFINED_VECTORS ==
  <<
     [key |-> <<"f","l","o","w">>, vector |-> SynthiumVector(Pct(70), Pct(20), Pct(80), Pct(90), Pct(10))],
     [key |-> <<"b","u","r","n","o","u","t">>, vector |-> SynthiumVector(Pct(90), Pct(80), Pct(30), Pct(10), Pct(80))],
     [key |-> <<"d","e","p","r","e","s","s","i","o","n">>, vector |-> SynthiumVector(Pct(10), Pct(70), Pct(20), Pct(20), Pct(60))],
     [key |-> <<"a","n","x","i","e","t","y">>, vector |-> SynthiumVector(Pct(80), Pct(60), Pct(40), Pct(50), Pct(80))],
     [key |-> <<"p","e","a","c","e">>, vector |-> SynthiumVector(Pct(30), Pct(10), Pct(70), Pct(80), Pct(10))],
     [key |-> <<"l","o","v","e">>, vector |-> SynthiumVector(Pct(50), Pct(10), Pct(90), Pct(80), Pct(20))],
     [key |-> <<"g","r","i","e","f">>, vector |-> SynthiumVector(Pct(20), Pct(80), Pct(30), Pct(30), Pct(70))],
     [key |-> <<"j","o","y">>, vector |-> SynthiumVector(Pct(60), Pct(10), Pct(80), Pct(90), Pct(20))],
     [key |-> <<"c","o","n","f","u","s","i","o","n">>, vector |-> SynthiumVector(Pct(50), Pct(50), Pct(40), Pct(50), Pct(90))],
     [key |-> <<"c","l","a","r","i","t","y">>, vector |-> SynthiumVector(Pct(40), Pct(20), Pct(60), Pct(80), Pct(10))]
  >>

-----------------------------------------------------------------------------
(* src/synthium_core/phenomena.py *)

CORE_PHENOMENA ==
  <<
     [id |-> 1, term |-> <<"F","l","o","w"," ","S","t","a","t","e">>,
      description |-> "Complete absorption in present activity, effortless action",
      vector |-> SynthiumVector(Pct(70), Pct(20), Pct(80), Pct(90), Pct(10)),
      phase |-> "integration",
      tags |-> <<"peak_experience", "performance", "presence">>,
      related_to |-> <<15, 20>>],
     [id |-> 2, term |-> <<"B","u","r","n","o","u","t">>,
      description |-> "Exhaustion from prolonged stress, depleted capacity",
      vector |-> SynthiumVector(Pct(90), Pct(80), Pct(30), Pct(10), Pct(80)),
      phase |-> "awakening",
      tags |-> <<"crisis", "depletion", "stress">>,
      related_to |-> <<3, 6>>],
     [id |-> 3, term |-> <<"D","e","p","r","e","s","s","i","o","n">>,
      description |-> "Low energy, disconnection, loss of meaning",
      vector |-> SynthiumVector(Pct(10), Pct(70), Pct(20), Pct(20), Pct(60)),
      phase |-> "awakening",
      tags |-> <<"mental_health", "low_energy", "disconnection">>,
      related_to |-> <<2, 7>>],
     [id |-> 4, term |-> <<"A","n","x","i","e","t","y">>,
      description |-> "High mental velocity, future-focused worry, chaos",
      vector |-> SynthiumVector(Pct(80), Pct(60), Pct(40), Pct(50), Pct(80)),
      phase |-> "awakening",
      tags |-> <<"mental_health", "worry", "chaos">>,
      related_to |-> <<2, 11>>],
     [id |-> 5, term |-> <<"I","n","n","e","r"," ","P","e","a","c","e">>,
      description |-> "Deep calm, low resistance, present-centered awareness",
      vector |-> SynthiumVector(Pct(30), Pct(10), Pct(70), Pct(80), Pct(10)),
      phase |-> "integration",
      tags |-> <<"peace", "meditation", "presence">>,
      related_to |-> <<1, 16>>],
     [id |-> 6, term |-> <<"G","r","i","e","f">>,
      description |-> "Processing loss, high resistance, low capacity",
      vector |-> SynthiumVector(Pct(20), Pct(80), Pct(30), Pct(30), Pct(70)),
      phase |-> "awakening",
      tags |-> <<"emotion", "loss", "healing">>,
      related_to |-> <<3, 8>>],
     [id |-> 7, term |-> <<"A","p","a","t","h","y">>,
      description |-> "Emotional numbness, disconnection, low velocity",
      vector |-> SynthiumVector(Pct(10), Pct(50), Pct(10), Pct(30), Pct(50)),
      phase |-> "awakening",
      tags |-> <<"disconnection", "numbness">>,
      related_to |-> <<3, 6>>],
     [id |-> 8, term |-> <<"A","n","g","e","r">>,
      description |-> "High energy directed at resistance, friction",
      vector |-> SynthiumVector(Pct(80), Pct(90), Pct(40), Pct(60), Pct(70)),
      phase |-> "awakening",
      tags |-> <<"emotion", "energy", "resistance">>,
      related_to |-> <<4, 6>>],
     [id |-> 9, term |-> <<"J","o","y">>,
      description |-> "High resonance, open flow, elevated energy",
      vector |-> SynthiumVector(Pct(60), Pct(10), Pct(80), Pct(90), Pct(20)),
      phase |-> "integration",
      tags |-> <<"emotion", "positive", "connection">>,
      related_to |-> <<1, 5, 10>>],
     [id |-> 10, term |-> <<"L","o","v","e">>,
      description |-> "Deep resonance, acceptance, connection",
      vector |-> SynthiumVector(Pct(50), Pct(10), Pct(90), Pct(80), Pct(20)),
      phase |-> "integration",
      tags |-> <<"emotion", "connection", "transcendence">>,
      related_to |-> <<5, 9, 16>>],
     [id |-> 11, term |-> <<"C","o","n","f","u","s","i","o","n">>,
      description |-> "High entropy, unclear direction, scattered energy",
      vector |-> SynthiumVector(Pct(50), Pct(50), Pct(40), Pct(50), Pct(90)),
      phase |-> "awakening",
      tags |-> <<"chaos", "uncertainty">>,
      related_to |-> <<4, 12>>],
     [id |-> 12, term |-> <<"C","l","a","r","i","t","y">>,
      description |-> "Low entropy, clear seeing, organized thought",
      vector |-> SynthiumVector(Pct(40), Pct(20), Pct(60), Pct(80), Pct(10)),
      phase |-> "integration",
      tags |-> <<"insight", "order", "understanding">>,
      related_to |-> <<1, 5, 16>>],
     [id |-> 13, term |-> <<"O","v","e","r","w","h","e","l","m">>,
      description |-> "Capacity exceeded, high chaos, system overload",
      vector |-> SynthiumVector(Pct(70), Pct(70), Pct(30), Pct(20), Pct(90)),
      phase |-> "awakening",
      tags |-> <<"crisis", "chaos", "depletion">>,
      related_to |-> <<2, 4, 11>>],
     [id |-> 14, term |-> <<"B","o","r","e","d","o","m">>,
      description |-> "Low velocity, disconnection, excess capacity",
      vector |-> SynthiumVector(Pct(20), Pct(30), Pct(30), Pct(70), Pct(40)),
      phase |-> "awakening",
      tags |-> <<"low_energy", "disconnection">>,
      related_to |-> <<7, 15>>],
     [id |-> 15, term |-> <<"C","u","r","i","o","s","i","t","y">>,
      description |-> "Moderate velocity, openness, seeking resonance",
      vector |-> SynthiumVector(Pct(60), Pct(30), Pct(60), Pct(70), Pct(30)),
      phase |-> "integration",
      tags |-> <<"exploration", "growth", "openness">>,
      related_to |-> <<1, 9, 12>>],
     [id |-> 16, term |-> <<"P","r","e","s","e","n","c","e">>,
      description |-> "Here-now awareness, low resistance, harmony",
      vector |-> SynthiumVector(Pct(30), Pct(10), Pct(70), Pct(80), Pct(10)),
      phase |-> "transcendence",
      tags |-> <<"awareness", "meditation", "transcendence">>,
      related_to |-> <<5, 10, 12, 17>>],
     [id |-> 17, term |-> <<"W","i","t","n","e","s","s"," ","C","o","n","s","c","i","o","u","s","n","e","s","s">>,
      description |-> "Pure awareness, observing without attachment",
      vector |-> SynthiumVector(Pct(10), Pct(0), Pct(80), Pct(90), Pct(0)),
      phase |-> "transcendence",
      tags |-> <<"awareness", "meditation", "transcendence", "mystical">>,
      related_to |-> <<16, 18, 19>>],
     [id |-> 18, term |-> <<"S","a","k","s","h","a","t","a","k","a","r","a">>,
      description |-> "Direct realization, dissolution of seeker",
      vector |-> SynthiumVector(Pct(0), Pct(0), Pct(100), Pct(100), Pct(0)),
      phase |-> "dissolution",
      tags |-> <<"mystical", "enlightenment", "transcendence">>,
      related_to |-> <<17, 19, 20>>],
     [id |-> 19, term |-> <<"T","h","e"," ","V","o","i","d">>,
      description |-> "Emptiness, no-self, pure potential",
      vector |-> SynthiumVector(Pct(0), Pct(0), Pct(50), Pct(100), Pct(0)),
      phase |-> "dissolution",
      tags |-> <<"mystical", "emptiness", "transcendence">>,
      related_to |-> <<17, 18>>],
     [id |-> 20, term |-> <<"T","h","i","s">>,
      description |-> "The eternal present, only what is",
      vector |-> SynthiumVector(Pct(0), Pct(0), Pct(100), Pct(100), Pct(0)),
      phase |-> "dissolution",
      tags |-> <<"mystical", "presence", "absolute">>,
      related_to |-> <<16, 17, 18>>]
  >>

-----------------------------------------------------------------------------
(* Python values *)

\* None, and the result of a dict .get() that misses
None == [none |-> TRUE]

LowerChar(c) ==
  CASE c = "A" -> "a" [] c = "B" -> "b" [] c = "C" -> "c" [] c = "D" -> "d"
    [] c = "E" -> "e" [] c = "F" -> "f" [] c = "G" -> "g" [] c = "H" -> "h"
    [] c = "I" -> "i" [] c = "J" -> "j" [] c = "K" -> "k" [] c = "L" -> "l"
    [] c = "M" -> "m" [] c = "N" -> "n" [] c = "O" -> "o" [] c = "P" -> "p"
    [] c = "Q" -> "q" [] c = "R" -> "r" [] c = "S" -> "s" [] c = "T" -> "t"
    [] c = "U" -> "u" [] c = "V" -> "v" [] c = "W" -> "w" [] c = "X" -> "x"
    [] c = "Y" -> "y" [] c = "Z" -> "z" [] OTHER -> c

\* str.lower()
lower(s) == [i \in DOMAIN s |-> LowerChar(s[i])]

RECURSIVE InsertDescUnstable(_, _, _)
\* InsertDesc putting the index in front of the indices of equal key: the order of an
\* ascending sort that is then reversed
InsertDescUnstable(order, i, keys) ==
  IF order = <<>> THEN <<i>>
  ELSE IF keys[Head(order)] > keys[i]
       THEN <<Head(order)>> \o InsertDescUnstable(Tail(order), i, keys)
       ELSE <<i>> \o order

RECURSIVE InsertDesc(_, _, _)
\* the index i put into the descending order `order`, behind every index whose key is
\* not smaller
InsertDesc(order, i, keys) ==
  IF order = <<>> THEN <<i>>
  ELSE IF keys[Head(order)] >= keys[i]
       THEN <<Head(order)>> \o InsertDesc(Tail(order), i, keys)
       ELSE <<i>> \o order

RECURSIVE SortOrderDesc(_, _)
\* the indices 1..n in the order of list.sort(key=..., reverse=True): descending keys,
\* equal keys in their original order
SortOrderDesc(n, keys) ==
  IF n = 0 THEN <<>> ELSE InsertDesc(SortOrderDesc(n - 1, keys), n, keys)

\* sorted(items, key=..., reverse=True), keys[i] being the key of items[i]
sorted_reverse(items, keys) ==
  LET order == SortOrderDesc(Len(items), keys)
  IN  [p \in 1..Len(items) |-> items[order[p]]]

\* items[:limit] for limit >= 0
slice_to(items, limit) == SubSeq(items, 1, Min(limit, Len(items)))

-----------------------------------------------------------------------------
(* src/synthium_core/database.py; phen is the phenomena dict as the sequence of its
   values in insertion order *)

\* SynthiumDatabase.__init__ and _load_core_phenomena
load_core_phenomena == CORE_PHENOMENA

get_phenomenon(phen, phenomenon_id) ==
  IF \E i \in DOMAIN phen : phen[i].id = phenomenon_id
  THEN phen[CHOOSE i \in DOMAIN phen : phen[i].id = phenomenon_id]
  ELSE None

get_phenomenon_by_term(phen, term) ==
  LET hits == {i \in DOMAIN phen : lower(phen[i].term) = lower(term)}
  IN  IF hits = {} THEN None
      ELSE phen[CHOOSE i \in hits : \A j \in hits : i <= j]

\* find_similar_phenomena reading the catalog from its last entry to its first
find_similar_phenomena_newest_first(phen, vector, limit) ==
  LET n == Len(phen)
      similarities ==
        [i \in DOMAIN phen |->
           [phenomenon |-> phen[n + 1 - i],
            similarity |-> similarity_to(vector, phen[n + 1 - i].vector)]]
      keys == [i \in DOMAIN phen |-> similarities[i].similarity]
  IN  slice_to(sorted_reverse(similarities, keys), limit)

find_similar_phenomena(phen, vector, limit) ==
  LET similarities ==
        [i \in DOMAIN phen |->
           [phenomenon |-> phen[i], similarity |-> similarity_to(vector, phen[i].vector)]]
      keys == [i \in DOMAIN phen |-> similarities[i].similarity]
  IN  slice_to(sorted_reverse(similarities, keys), limit)

\* user_states after add_user_state(user_id, state)
\* add_user_state starting the list of the user anew
add_user_state_reset(states, user_id, state) ==
  [u \in DOMAIN states \cup {user_id} |-> IF u = user_id THEN <<state>> ELSE states[u]]

add_user_state(states, user_id, state) ==
  IF user_id \in DOMAIN states
  THEN [states EXCEPT ![user_id] = Append(@, state)]
  ELSE [u \in DOMAIN states \cup {user_id} |->
          IF u = user_id THEN <<state>> ELSE states[u]]

get_user_history(states, user_id) ==
  IF user_id \in DOMAIN states THEN states[user_id] ELSE <<>>

-----------------------------------------------------------------------------
(* src/synthium_core/engine.py.  The weights 0.3, 0.3, 0.2, 0.2 and 0.4, 0.4, 0.2 are
   carried in tenths, so a score is an integer in units of 1/(10 * One). *)

\* the float 1.0 on the scale of the scores
ScoreOne == 10 * One

\* wellbeing_sum with the weight 0.4 on the capacity
wellbeing_sum_heavy(vector) ==
  vector.r * 3 + vector.C * 4 + (One - vector.R) * 2 + (One - vector.S) * 2

\* the weighted sum of calculate_wellbeing, before its clamp
wellbeing_sum(vector) ==
  vector.r * 3 + vector.C * 3 + (One - vector.R) * 2 + (One - vector.S) * 2

calculate_wellbeing(vector) == Max(0, Min(ScoreOne, wellbeing_sum(vector)))

\* the weighted sum of calculate_stability, before its clamp
stability_sum(vector) ==
  (One - vector.S) * 4 + vector.C * 4 + (One - vector.R) * 2

calculate_stability(vector) == Max(0, Min(ScoreOne, stability_sum(vector)))

\* round(score, 3) of a score, as a scalar
round3_score(s) == RoundDiv(s * 1000, ScoreOne) * Milli

\* determine_phase testing transcendence before dissolution
determine_phase_reordered(vector) ==
  IF vector.S < Pct(30) /\ vector.C > Pct(70) /\ vector.r > Pct(70)
  THEN "transcendence"
  ELSE IF vector.v < Pct(20) /\ vector.R < Pct(20) /\ vector.r > Pct(80)
  THEN "dissolution"
  ELSE IF vector.S < Pct(50) /\ vector.C > Pct(50) /\ vector.r > Pct(50)
  THEN "integration"
  ELSE "awakening"

determine_phase(vector) ==
  IF vector.v < Pct(20) /\ vector.R < Pct(20) /\ vector.r > Pct(80)
  THEN "dissolution"
  ELSE IF vector.S < Pct(30) /\ vector.C > Pct(70) /\ vector.r > Pct(70)
  THEN "transcendence"
  ELSE IF vector.S < Pct(50) /\ vector.C > Pct(50) /\ vector.r > Pct(50)
  THEN "integration"
  ELSE "awakening"

\* <<msg>> when cond holds, else the message of the elif branch when it holds, else <<>>
IfElif(cond, msg, cond2, msg2) ==
  IF cond THEN <<msg>> ELSE IF cond2 THEN <<msg2>> ELSE <<>>

\* generate_insights with the entropy check before the capacity check
generate_insights_entropy_first(vector) ==
  IfElif(vector.v > Pct(80),
         "High velocity detected - you may be rushing or in urgency mode",
         vector.v < Pct(20),
         "Very low velocity - experiencing stuckness or paralysis")
  \o IfElif(vector.R > Pct(70),
            "Significant resistance present - friction or trauma blocking flow",
            vector.R < Pct(30),
            "Low resistance - experiencing ease and acceptance")
  \o IfElif(vector.r > Pct(70),
            "Strong resonance - feeling connected and in tune",
            vector.r < Pct(30),
            "Low resonance - experiencing disconnection or isolation")
  \o IfElif(vector.S > Pct(70),
            "High entropy - experiencing confusion or chaos",
            vector.S < Pct(30),
            "Low entropy - clarity and order present")
  \o IfElif(vector.C < Pct(30),
            "Depleted capacity - need for rest and restoration",
            vector.C > Pct(80),
            "High capacity - energized and ready for action")

generate_insights(vector) ==
  IfElif(vector.v > Pct(80),
         "High velocity detected - you may be rushing or in urgency mode",
         vector.v < Pct(20),
         "Very low velocity - experiencing stuckness or paralysis")
  \o IfElif(vector.R > Pct(70),
            "Significant resistance present - friction or trauma blocking flow",
            vector.R < Pct(30),
            "Low resistance - experiencing ease and acceptance")
  \o IfElif(vector.r > Pct(70),
            "Strong resonance - feeling connected and in tune",
            vector.r < Pct(30),
            "Low resonance - experiencing disconnection or isolation")
  \o IfElif(vector.C < Pct(30),
            "Depleted capacity - need for rest and restoration",
            vector.C > Pct(80),
            "High capacity - energized and ready for action")
  \o IfElif(vector.S > Pct(70),
            "High entropy - experiencing confusion or chaos",
            vector.S < Pct(30),
            "Low entropy - clarity and order present")

\* <<msg>> when cond holds, else <<>>
If(cond, msg) == IF cond THEN <<msg>> ELSE <<>>

\* generate_recommendations stopping at the first rule that fires
generate_recommendations_first_match(vector) ==
  IF vector.v > Pct(70) /\ vector.R > Pct(60)
  THEN <<"Consider slowing down - rushing against resistance creates friction">>
  ELSE IF vector.C < Pct(40) /\ vector.S > Pct(60)
  THEN <<"Focus on rest and simplification to restore capacity">>
  ELSE IF vector.r < Pct(40)
  THEN <<"Seek connection - reach out, share, or practice self-compassion">>
  ELSE IF vector.S > Pct(70)
  THEN <<"Create structure - write, organize, or clarify priorities">>
  ELSE IF vector.v < Pct(30) /\ vector.C > Pct(70)
  THEN <<"You have capacity available - consider what you're avoiding">>
  ELSE IF vector.S < Pct(30) /\ vector.C > Pct(70) /\ vector.r > Pct(70)
  THEN <<"You're in a powerful state - this is a moment for deep work or presence">>
  ELSE <<"Continue current path - system is balanced">>

generate_recommendations(vector) ==
  LET recommendations ==
        If(vector.v > Pct(70) /\ vector.R > Pct(60),
           "Consider slowing down - rushing against resistance creates friction")
        \o If(vector.C < Pct(40) /\ vector.S > Pct(60),
              "Focus on rest and simplification to restore capacity")
        \o If(vector.r < Pct(40),
              "Seek connection - reach out, share, or practice self-compassion")
        \o If(vector.S > Pct(70),
              "Create structure - write, organize, or clarify priorities")
        \o If(vector.v < Pct(30) /\ vector.C > Pct(70),
              "You have capacity available - consider what you're avoiding")
        \o If(vector.S < Pct(30) /\ vector.C > Pct(70) /\ vector.r > Pct(70),
              "You're in a powerful state - this is a moment for deep work or presence")
  IN  IF recommendations = <<>>
      THEN <<"Continue current path - system is balanced">>
      ELSE recommendations

analyze_state(phen, vector) ==
  LET similar_phenomena == find_similar_phenomena(phen, vector, 5)
  IN  [vector |-> to_dict(vector),
       wellbeing_score |-> round3_score(calculate_wellbeing(vector)),
       phase |-> determine_phase(vector),
       stability |-> round3_score(calculate_stability(vector)),
       similar_phenomena |->
         [i \in DOMAIN similar_phenomena |->
            [phenomenon |-> similar_phenomena[i].phenomenon.term,
             similarity |-> round3_similarity(similar_phenomena[i].similarity),
             description |-> similar_phenomena[i].phenomenon.description]],
       insights |-> generate_insights(vector),
       recommendations |-> generate_recommendations(vector)]

estimate_phenomenon_vector(phenomenon) == phenomenon.vector

\* distance carried as q = distance^2: distance < 0.5 iff 4 q < 1, distance < 1.5 iff 4 q < 9
\* estimate_difficulty with the breakpoints on the lower side
estimate_difficulty_inclusive(q) ==
  IF 4 * q <= One * One THEN "easy"
  ELSE IF q <= One * One THEN "moderate"
  ELSE IF 4 * q <= 9 * One * One THEN "challenging"
  ELSE "profound"

estimate_difficulty(q) ==
  IF 4 * q < One * One THEN "easy"
  ELSE IF q < One * One THEN "moderate"
  ELSE IF 4 * q < 9 * One * One THEN "challenging"
  ELSE "profound"

step_action(dimension, direction) ==
  CASE dimension = "v" /\ direction = "increase" ->
         "Engage in energizing activity, set deadlines, create momentum"
    [] dimension = "v" /\ direction = "decrease" ->
         "Practice slowing down, meditation, intentional pauses"
    [] dimension = "R" /\ direction = "increase" ->
         "Engage with challenging material, face fears"
    [] dimension = "R" /\ direction = "decrease" ->
         "Release resistance through acceptance, breathwork, or somatic practices"
    [] dimension = "r" /\ direction = "increase" ->
         "Connect with others, practice empathy, find your tribe"
    [] dimension = "r" /\ direction = "decrease" ->
         "Create boundaries, practice solitude, disconnect from draining relationships"
    [] dimension = "C" /\ direction = "increase" ->
         "Rest, restore energy, eat well, sleep, reduce commitments"
    [] dimension = "C" /\ direction = "decrease" ->
         "Engage capacity through challenge and growth"
    [] dimension = "S" /\ direction = "increase" ->
         "Embrace uncertainty, explore chaos, try new things"
    [] dimension = "S" /\ direction = "decrease" ->
         "Organize, clarify, create systems, write things down"

create_step_for_dimension(dimension, change) ==
  [dimension |-> dimension,
   change |-> round3(change),
   action |-> step_action(dimension, IF change > 0 THEN "increase" ELSE "decrease")]

\* generate_transformation_steps keeping only the changes above 0.1
generate_transformation_steps_strict(delta) ==
  LET items == [i \in DOMAIN Dims |-> [dimension |-> Dims[i], change |-> delta[Dims[i]]]]
      keys == [i \in DOMAIN Dims |-> Abs(delta[Dims[i]])]
      priorities == sorted_reverse(items, keys)
      kept == SelectSeq(priorities, LAMBDA it : Abs(it.change) > Pct(10))
  IN  [i \in DOMAIN kept |-> create_step_for_dimension(kept[i].dimension, kept[i].change)]

\* generate_transformation_steps with the threshold 0.5 in place of 0.1
generate_transformation_steps_coarse(delta) ==
  LET items == [i \in DOMAIN Dims |-> [dimension |-> Dims[i], change |-> delta[Dims[i]]]]
      keys == [i \in DOMAIN Dims |-> Abs(delta[Dims[i]])]
      priorities == sorted_reverse(items, keys)
      kept == SelectSeq(priorities, LAMBDA it : ~(Abs(it.change) < Pct(50)))
  IN  [i \in DOMAIN kept |-> create_step_for_dimension(kept[i].dimension, kept[i].change)]

\* delta is the dict of the five changes, its items in the order v, R, r, C, S
generate_transformation_steps(delta) ==
  LET items == [i \in DOMAIN Dims |-> [dimension |-> Dims[i], change |-> delta[Dims[i]]]]
      keys == [i \in DOMAIN Dims |-> Abs(delta[Dims[i]])]
      priorities == sorted_reverse(items, keys)
      kept == SelectSeq(priorities, LAMBDA it : ~(Abs(it.change) < Pct(10)))
  IN  [i \in DOMAIN kept |-> create_step_for_dimension(kept[i].dimension, kept[i].change)]

\* predefined_get giving the vector of the row after the row of the key
predefined_get_shifted(key) ==
  IF \E i \in DOMAIN PREDEFINED_VECTORS : PREDEFINED_VECTORS[i].key = key
  THEN PREDEFINED_VECTORS[
         ((CHOOSE i \in DOMAIN PREDEFINED_VECTORS : PREDEFINED_VECTORS[i].key = key)
            % Len(PREDEFINED_VECTORS)) + 1].vector
  ELSE None

predefined_get(key) ==
  IF \E i \in DOMAIN PREDEFINED_VECTORS : PREDEFINED_VECTORS[i].key = key
  THEN PREDEFINED_VECTORS[CHOOSE i \in DOMAIN PREDEFINED_VECTORS :
                            PREDEFINED_VECTORS[i].key = key].vector
  ELSE None

\* resolve_target asking the catalog before the predefined table
resolve_target_catalog_first(phen, target_state) ==
  LET phenomenon == get_phenomenon_by_term(phen, target_state)
  IN  IF phenomenon # None THEN phenomenon.vector
      ELSE predefined_get(lower(target_state))

\* the target vector of create_transformation_plan, None when the name is unknown
resolve_target(phen, target_state) ==
  LET target_vector == predefined_get(lower(target_state))
  IN  IF target_vector # None THEN target_vector
      ELSE LET phenomenon == get_phenomenon_by_term(phen, target_state)
           IN  IF phenomenon # None THEN phenomenon.vector ELSE None

create_transformation_plan(phen, current_vector, target_state) ==
  LET target_vector == resolve_target(phen, target_state)
      delta == [d \in {"v", "R", "r", "C", "S"} |-> target_vector[d] - current_vector[d]]
      distance == distance_to(current_vector, target_vector)
  IN  IF target_vector = None
      THEN [error |-> <<"Unknown target state: ", target_state>>]
      ELSE [current_state |-> to_dict(current_vector),
            target_state |-> to_dict(target_vector),
            delta |-> [d \in {"v", "R", "r", "C", "S"} |-> round3(delta[d])],
            distance |-> round3_distance(distance),
            estimated_difficulty |-> estimate_difficulty(distance),
            steps |-> generate_transformation_steps(delta)]

-----------------------------------------------------------------------------
(* src/web_backend/validation.py.  A sample (an entry of empirical_data) is a function
   from some of the keys "vector", "phase", "wellbeing", "phenomenon_id" to values; a
   reported wellbeing is on the scale of the scores.  A ratio a/b that the code keeps
   unrounded is carried as [num |-> a, den |-> b].  The timestamp of a result is left
   out. *)

RECURSIVE SumSeq(_)
SumSeq(s) == IF s = <<>> THEN 0 ELSE Head(s) + SumSeq(Tail(s))

Zero == [num |-> 0, den |-> 1]

\* round(a / b, 3), as a scalar
round3_ratio(x) == RoundDiv(x.num * 1000, x.den) * Milli

\* a / b >= h / 100
ratio_at_least(x, h) == x.num * 100 >= h * x.den

RECURSIVE LongDiv(_, _, _)
\* floor(num * 10^k / den), by long division
LongDiv(num, den, k) ==
  IF k = 0 THEN num \div den
  ELSE (num \div den) * (10 ^ k) + LongDiv((num % den) * 10, den, k - 1)

\* the entries of empirical_data that carry the key
with_key(empirical_data, key) == SelectSeq(empirical_data, LAMBDA e : key \in DOMAIN e)

\* inverse_difference without the absolute value
inverse_difference_signed(predicted, sum, n, one) ==
  [num |-> n * one, den |-> n * one + (n * predicted - sum)]

\* 1.0 / (1.0 + abs(predicted - sum / n)) as a ratio, sum being the sum of n values and
\* one the 1.0 of their scale
inverse_difference(predicted, sum, n, one) ==
  [num |-> n * one, den |-> n * one + Abs(n * predicted - sum)]

\* the dict of rounded correlations; "overall" is a fifth of the sum of the five unrounded
\* ones, each taken to six decimals (in millionths) before the sum is rounded
calculate_correlations(predicted_vector, empirical_data) ==
  LET with_vector == with_key(empirical_data, "vector")
      empirical_vectors == [i \in DOMAIN with_vector |-> from_dict(with_vector[i]["vector"])]
      n == Len(empirical_vectors)
      corr(d) == inverse_difference(predicted_vector[d],
                                    SumSeq([i \in 1..n |-> empirical_vectors[i][d]]), n, One)
      micro(d) == LongDiv(corr(d).num, corr(d).den, 6)
      overall == micro("v") + micro("R") + micro("r") + micro("C") + micro("S")
  IN  IF empirical_data = <<>> \/ empirical_vectors = <<>>
      THEN [k \in {"v", "R", "r", "C", "S", "overall"} |-> 0]
      ELSE [k \in {"v", "R", "r", "C", "S", "overall"} |->
              IF k = "overall" THEN RoundDiv(overall, 5000) * Milli
              ELSE round3_ratio(corr(k))]

\* calculate_phase_accuracy dividing by the number of all samples
calculate_phase_accuracy_all(phenomenon, empirical_data) ==
  LET with_phase == with_key(empirical_data, "phase")
      phase_matches == Len(SelectSeq(with_phase, LAMBDA e : e["phase"] = phenomenon.phase))
  IN  IF empirical_data = <<>> THEN Zero
      ELSE [num |-> phase_matches, den |-> Len(empirical_data)]

calculate_phase_accuracy(phenomenon, empirical_data) ==
  LET with_phase == with_key(empirical_data, "phase")
      total == Len(with_phase)
      phase_matches == Len(SelectSeq(with_phase, LAMBDA e : e["phase"] = phenomenon.phase))
  IN  IF empirical_data = <<>> \/ total = 0 THEN Zero
      ELSE [num |-> phase_matches, den |-> total]

\* calculate_wellbeing_correlation reading the reported wellbeing only
calculate_wellbeing_correlation_reported(predicted_vector, empirical_data) ==
  LET predicted_wellbeing == calculate_wellbeing(predicted_vector)
      scored == SelectSeq(empirical_data, LAMBDA e : "wellbeing" \in DOMAIN e)
      empirical_wellbeing_scores == [i \in DOMAIN scored |-> scored[i]["wellbeing"]]
  IN  IF empirical_data = <<>> \/ empirical_wellbeing_scores = <<>> THEN Zero
      ELSE inverse_difference(predicted_wellbeing, SumSeq(empirical_wellbeing_scores),
                              Len(empirical_wellbeing_scores), ScoreOne)

calculate_wellbeing_correlation(predicted_vector, empirical_data) ==
  LET predicted_wellbeing == calculate_wellbeing(predicted_vector)
      scored == SelectSeq(empirical_data,
                          LAMBDA e : "wellbeing" \in DOMAIN e \/ "vector" \in DOMAIN e)
      empirical_wellbeing_scores ==
        [i \in DOMAIN scored |->
           IF "wellbeing" \in DOMAIN scored[i] THEN scored[i]["wellbeing"]
           ELSE calculate_wellbeing(from_dict(scored[i]["vector"]))]
  IN  IF empirical_data = <<>> \/ empirical_wellbeing_scores = <<>> THEN Zero
      ELSE inverse_difference(predicted_wellbeing, SumSeq(empirical_wellbeing_scores),
                              Len(empirical_wellbeing_scores), ScoreOne)

\* the success criteria of the phenomenon_validation protocol: 0.7, 0.8, 0.6
evaluate_validation_result(correlations, phase_accuracy, wellbeing_corr) ==
  /\ correlations["overall"] >= Pct(70)
  /\ ratio_at_least(phase_accuracy, 80)
  /\ ratio_at_least(wellbeing_corr, 60)

\* the value validate_phenomenon returns
validate_phenomenon(phen, phenomenon_id, empirical_data) ==
  LET phenomenon == get_phenomenon(phen, phenomenon_id)
      predicted_vector == estimate_phenomenon_vector(phenomenon)
      correlations == calculate_correlations(predicted_vector, empirical_data)
      phase_accuracy == calculate_phase_accuracy(phenomenon, empirical_data)
      wellbeing_corr == calculate_wellbeing_correlation(predicted_vector, empirical_data)
  IN  IF phenomenon = None
      THEN [error |-> <<"Phenomenon ", phenomenon_id, " not found">>]
      ELSE [phenomenon_id |-> phenomenon_id,
            phenomenon_name |-> phenomenon.term,
            predicted_vector |-> to_dict(predicted_vector),
            validation_metrics |->
              [vector_correlation |-> correlations["overall"],
               phase_accuracy |-> round3_ratio(phase_accuracy),
               wellbeing_correlation |-> round3_ratio(wellbeing_corr)],
            validation_passed |->
              evaluate_validation_result(correlations, phase_accuracy, wellbeing_corr),
            sample_size |-> Len(empirical_data)]

\* the entries of participant_data tagged with pid: participants in the order of the dict,
\* the entries of each in the order of its list.  participant_data is the sequence of the
\* items [participant_id, data_list] of the dict
RECURSIVE phenomenon_data_untagged(_, _)
\* phenomenon_data taking the entries without tag as well
phenomenon_data_untagged(participant_data, pid) ==
  IF participant_data = <<>> THEN <<>>
  ELSE SelectSeq(Head(participant_data).data_list,
                 LAMBDA entry : "phenomenon_id" \in DOMAIN entry => entry["phenomenon_id"] = pid)
         \o phenomenon_data_untagged(Tail(participant_data), pid)

RECURSIVE phenomenon_data(_, _)
phenomenon_data(participant_data, pid) ==
  IF participant_data = <<>> THEN <<>>
  ELSE SelectSeq(Head(participant_data).data_list,
                 LAMBDA entry : "phenomenon_id" \in DOMAIN entry /\ entry["phenomenon_id"] = pid)
         \o phenomenon_data(Tail(participant_data), pid)

\* the results of the calls of validate_phenomenon made by the loop of
\* run_validation_study, one per element of phenomenon_ids, in that order
study_calls(phen, phenomenon_ids, participant_data) ==
  [i \in DOMAIN phenomenon_ids |->
     validate_phenomenon(phen, phenomenon_ids[i],
                         phenomenon_data(participant_data, phenomenon_ids[i]))]

\* results[pid] = result on a dict kept as the sequence of its items: a new key goes to
\* the end, a known key keeps its place
results_set(results, pid, result) ==
  IF \E i \in DOMAIN results : results[i].pid = pid
  THEN [i \in DOMAIN results |->
          IF results[i].pid = pid THEN [pid |-> pid, result |-> result] ELSE results[i]]
  ELSE Append(results, [pid |-> pid, result |-> result])

RECURSIVE study_results(_, _, _)
\* the dict results after the first n elements of phenomenon_ids
study_results(phenomenon_ids, calls, n) ==
  IF n = 0 THEN <<>>
  ELSE results_set(study_results(phenomenon_ids, calls, n - 1), phenomenon_ids[n], calls[n])

\* result.get("validation_passed"), None read as False
get_validation_passed(result) ==
  IF "validation_passed" \in DOMAIN result THEN result.validation_passed ELSE FALSE

\* result.get("validation_metrics", {}).get("vector_correlation", 0)
get_vector_correlation(result) ==
  IF "validation_metrics" \in DOMAIN result
  THEN result.validation_metrics.vector_correlation
  ELSE 0

\* the list of recommendations; the message is kept as its text and the listed ids
generate_validation_recommendations(results) ==
  LET low == SelectSeq(results, LAMBDA it : get_vector_correlation(it.result) < Pct(60))
      low_correlation == [i \in DOMAIN low |-> low[i].pid]
  IN  IF low_correlation # <<>>
      THEN <<[text |-> "Re-evaluate vector mappings for phenomena: ",
              ids |-> slice_to(low_correlation, 5)]>>
      ELSE <<>>

\* the value run_validation_study returns, without its study_id
run_validation_study(phen, phenomenon_ids, participant_data) ==
  LET calls == study_calls(phen, phenomenon_ids, participant_data)
      results == study_results(phenomenon_ids, calls, Len(phenomenon_ids))
      passed == Len(SelectSeq(results, LAMBDA it : get_validation_passed(it.result)))
      total == Len(results)
  IN  [summary |->
         [total_phenomena |-> total,
          passed |-> passed,
          failed |-> total - passed,
          success_rate |-> IF total > 0 THEN RoundDiv(passed * 1000, total) * Milli ELSE 0],
       detailed_results |-> results,
       recommendations |-> generate_validation_recommendations(results)]

-----------------------------------------------------------------------------
(* src/synthium_core/database.py: import_from_json.  A document is the parsed JSON: a
   function from some of the keys "phenomena", "user_states" to values. *)

\* self.phenomena[phenomenon.id] = phenomenon
dict_set(phen, phenomenon) ==
  IF \E i \in DOMAIN phen : phen[i].id = phenomenon.id
  THEN [i \in DOMAIN phen |-> IF phen[i].id = phenomenon.id THEN phenomenon ELSE phen[i]]
  ELSE Append(phen, phenomenon)

\* import_phenomena emptying the catalog before it reads the document
import_phenomena_replacing(phen, p_list) ==
  [i \in DOMAIN p_list |->
     [id |-> p_list[i].id, term |-> p_list[i].term, description |-> p_list[i].description,
      vector |-> from_dict(p_list[i].vector), phase |-> p_list[i].phase,
      tags |-> p_list[i].tags, related_to |-> p_list[i].related_to]]

RECURSIVE import_phenomena(_, _)
import_phenomena(phen, p_list) ==
  IF p_list = <<>> THEN phen
  ELSE import_phenomena(
         dict_set(phen, [id |-> Head(p_list).id,
                         term |-> Head(p_list).term,
                         description |-> Head(p_list).description,
                         vector |-> from_dict(Head(p_list).vector),
                         phase |-> Head(p_list).phase,
                         tags |-> Head(p_list).tags,
                         related_to |-> Head(p_list).related_to]),
         Tail(p_list))

EmptyDict == [u \in {} |-> <<>>]

\* get_user_trajectory: the vectors of the states of the history that carry one
get_user_trajectory(states, user_id) ==
  LET history == get_user_history(states, user_id)
      with_vector == SelectSeq(history, LAMBDA state : "vector" \in DOMAIN state)
  IN  [i \in DOMAIN with_vector |-> from_dict(with_vector[i]["vector"])]

\* Phenomenon.to_dict
phenomenon_to_dict(p) ==
  [id |-> p.id, term |-> p.term, description |-> p.description,
   vector |-> to_dict(p.vector), phase |-> p.phase, tags |-> p.tags,
   related_to |-> p.related_to]

\* the document export_to_json writes.  json.dump and json.load give back numbers,
\* strings, lists and dicts with string keys as they were, so the document read is the
\* document written
export_to_json(phen, states) ==
  [phenomena |-> [i \in DOMAIN phen |-> phenomenon_to_dict(phen[i])],
   user_states |-> states]

\* what import_from_json makes of the catalog and of the histories
import_from_json(phen, states, document) ==
  [phenomena |-> import_phenomena(phen, IF "phenomena" \in DOMAIN document
                                        THEN document["phenomena"] ELSE <<>>),
   user_states |-> IF "user_states" \in DOMAIN document
                   THEN document["user_states"] ELSE EmptyDict]

-----------------------------------------------------------------------------
(* Inputs *)

\* src/web_backend/app.py, GET /phenomena/{phenomenon_id}

\* related_phenomena with an entry for every related id, found or not
related_phenomena_unchecked(phen, related_to) ==
  [i \in DOMAIN related_to |->
     LET related_p == get_phenomenon(phen, related_to[i])
     IN  IF related_p = None
         THEN [id |-> related_to[i], term |-> <<>>, description |-> ""]
         ELSE [id |-> related_p.id, term |-> related_p.term,
               description |-> related_p.description]]

RECURSIVE related_phenomena(_, _)
\* the loop over phenomenon.related_to: an entry for each related id the catalog has
related_phenomena(phen, related_to) ==
  IF related_to = <<>> THEN <<>>
  ELSE LET related_p == get_phenomenon(phen, Head(related_to))
           rest == related_phenomena(phen, Tail(related_to))
       IN  IF related_p = None THEN rest
           ELSE <<[id |-> related_p.id, term |-> related_p.term,
                   description |-> related_p.description]>> \o rest

\* the response of the endpoint: status 404 for an id the catalog lacks, else the entry
\* as a dict with its related entries
phenomenon_detail(phen, phenomenon_id) ==
  LET phenomenon == get_phenomenon(phen, phenomenon_id)
  IN  IF phenomenon = None
      THEN [status_code |-> 404,
            detail |-> <<"Phenomenon ", phenomenon_id, " not found">>]
      ELSE [related_phenomena |-> related_phenomena(phen, phenomenon.related_to)]
             @@ phenomenon_to_dict(phenomenon)

\* the ids looked up: built-in entries, the ids of the imported entries, the dangling
\* related id of an imported entry, an id in no document
LookupIds == {1, 5, 16, 21, 22, 77, 99}

\* the largest limit passed to find_similar_phenomena
MaxLimit == 21

\* the number of raw values tried below 0 and above 1
MaxOver == 2

\* the grid of the scoring inputs has FineSteps intervals per dimension
FineSteps == 10

\* the grid of the engine inputs has CoarseSteps intervals per dimension
CoarseSteps == 2

\* the largest number of entries in all user histories together
MaxHistory == 1

\* the largest number of validation results kept
MaxResults == 1

Grid(steps) == {(k * One) \div steps : k \in 0..steps}

Vectors(values) ==
  {SynthiumVector(v, R, r, C, S) : v \in values, R \in values, r \in values,
                                   C \in values, S \in values}

\* numbers given to the constructor: below 0, inside [0, 1], above 1
RawValues ==
  {0 - k * Pct(50) : k \in 1..MaxOver} \cup {0, 1, Pct(50), One - 1, One}
    \cup {One + k * Pct(50) : k \in 1..MaxOver}

NamedVectors ==
  {PREDEFINED_VECTORS[i].vector : i \in DOMAIN PREDEFINED_VECTORS}
    \cup {CORE_PHENOMENA[i].vector : i \in DOMAIN CORE_PHENOMENA}

\* the query of test_find_similar
NearFlow == SynthiumVector(Pct(65), Pct(25), Pct(75), Pct(85), Pct(15))

\* vectors at chosen distances from the vector (0, 0, 1, 1, 0) of "This": distance 0.4998
\* and 0.99985, one change of exactly 0.1, one of 0.09, five changes of 0.1, and mixed ties
BoundaryVectors ==
  {SynthiumVector(Pct(47), Pct(17), One, One, 0),
   SynthiumVector(Pct(99), Pct(14), One, One, 0),
   SynthiumVector(Pct(10), 0, One, One, 0),
   SynthiumVector(Pct(9), 0, One, One, 0),
   SynthiumVector(Pct(10), Pct(10), Pct(90), Pct(90), Pct(10)),
   SynthiumVector(Pct(30), Pct(20), Pct(80), Pct(70), Pct(20))}

EngineVectors == Vectors(Grid(CoarseSteps)) \cup NamedVectors \cup BoundaryVectors \cup {NearFlow}

\* target names: a key of the predefined table, in two spellings; a catalog term that is
\* no key; a name in both tables; two catalog terms in another case; unknown names
TargetNames ==
  {<<"p", "e", "a", "c", "e">>,
   <<"P", "e", "a", "c", "e">>,
   <<"I", "n", "n", "e", "r", " ", "P", "e", "a", "c", "e">>,
   <<"B", "u", "r", "n", "o", "u", "t">>,
   <<"t", "h", "i", "s">>,
   <<"F", "L", "O", "W", " ", "S", "T", "A", "T", "E">>,
   <<"f", "l", "o", "w">>,
   <<"n", "i", "r", "v", "a", "n", "a">>,
   <<>>}

\* the corners of the unit cube
Corners == Vectors({0, One})

\* the second vector of a pair: a corner, a vector of the tables, the query of the test
PairVectors == Corners \cup NamedVectors \cup {NearFlow}

\* the names of both tables: the keys of the predefined table as written there and the
\* display names of the built-in catalog
TableNames ==
  {PREDEFINED_VECTORS[i].key : i \in DOMAIN PREDEFINED_VECTORS}
    \cup {CORE_PHENOMENA[k].term : k \in DOMAIN CORE_PHENOMENA}

\* the inputs of the stateful specification
Users == {"anonymous", "u1"}

HistoryStates ==
  {[description |-> "calm", vector |-> to_dict(NearFlow)],
   [description |-> "no vector"]}

SessionVectors == {CORE_PHENOMENA[2].vector}

\* the vectors analysed in a session: also the query of test_find_similar, the predefined
\* burnout vector and the vector of an entry that shares it with another entry
AnalyzedVectors ==
  SessionVectors \cup {NearFlow, PREDEFINED_VECTORS[1].vector, CORE_PHENOMENA[20].vector}

SessionTargets == {<<"P", "e", "a", "c", "e">>, <<"t", "h", "i", "s">>, <<"n", "i", "r", "v", "a", "n", "a">>}

SessionLimits == {3}

\* an id of the catalog, the id of the imported entry, an id in no catalog
PhenomenonIds == {1, 21, 99}

\* the sample lists given to the validator: none, one sample, two samples
SampleLists ==
  {<<>>,
   <<[vector |-> [v |-> Pct(70), R |-> Pct(20), r |-> Pct(80), C |-> Pct(90), S |-> Pct(10)],
      phase |-> "integration"]>>,
   <<[vector |-> [v |-> Pct(150), R |-> Pct(80)], wellbeing |-> Pct(30) * 10],
     [phase |-> "awakening"]>>}

\* an entry whose term is a key of the predefined table, with another vector; it takes
\* the id 21 and so extends the catalog
ImportedPeace ==
  [id |-> 21, term |-> <<"P", "e", "a", "c", "e">>,
   description |-> "imported",
   vector |-> [v |-> Pct(90), R |-> Pct(90)],
   phase |-> "awakening",
   tags |-> <<"imported">>,
   related_to |-> <<5, 77>>]

Documents ==
  {[phenomena |-> <<ImportedPeace>>],
   [user_states |-> [u \in {"u1"} |-> <<[description |-> "restored"]>>]]}

\* the largest number of validations made one after the other
MaxValidations == 2

\* the ids given to a sequence of validations: three of the catalog, one of no catalog
ValidatorIds == {1, 3, 5, 99}

\* the vector of Flow State as a sample reports it
FlowDict == to_dict(CORE_PHENOMENA[1].vector)

\* sample lists about Flow State (phase integration, predicted wellbeing 0.85):
\* none; one exact sample; four matching labels, one other label, one sample without
\* label (accuracy 0.8); three matching of four (0.75); a vector 0.0004 off in v; a vector
\* 0.4295 off in every dimension (overall 0.69955); a reported wellbeing 0.66 off
\* (0.6024) and one 0.6677 off (0.59963); a label alone; two vectors whose mean is exact
ValidatorSamples ==
  {<<>>,
   <<[vector |-> FlowDict, phase |-> "integration"]>>,
   <<[vector |-> FlowDict, phase |-> "integration"], [phase |-> "integration"],
     [phase |-> "integration"], [phase |-> "integration"], [phase |-> "awakening"],
     [vector |-> FlowDict]>>,
   <<[vector |-> FlowDict, phase |-> "integration"], [phase |-> "integration"],
     [phase |-> "integration"], [phase |-> "awakening"]>>,
   <<[vector |-> [FlowDict EXCEPT !.v = Pct(70) + 4], phase |-> "integration"]>>,
   <<[vector |-> [v |-> 2705, R |-> 6295, r |-> 3705, C |-> 4705, S |-> 5295],
      phase |-> "integration"]>>,
   <<[vector |-> FlowDict, phase |-> "integration", wellbeing |-> 19000]>>,
   <<[vector |-> FlowDict, phase |-> "integration", wellbeing |-> 18230]>>,
   <<[phase |-> "integration"]>>,
   <<[vector |-> [FlowDict EXCEPT !.v = Pct(60)], phase |-> "integration"],
     [vector |-> [FlowDict EXCEPT !.v = Pct(80)], phase |-> "integration"]>>}

\* the largest number of samples of a list in which every sample repeats the entry
MaxSamples == 3

\* n samples that carry the vector and the phase label of an entry and nothing else
own_samples(phenomenon, n) ==
  [i \in 1..n |-> [vector |-> to_dict(phenomenon.vector), phase |-> phenomenon.phase]]

\* the length of the longest list of ids given to a study
MaxStudyIds == 6

\* the lists of ids given to a study: every list of at most two ids, one of them of no
\* catalog, and the lists n, n-1, ..., 1 of three and more ids of the catalog
StudyIdLists ==
  {<<>>} \cup {<<a>> : a \in {1, 3, 99}} \cup {<<a, b>> : a, b \in {1, 3, 99}}
    \cup {[i \in 1..n |-> n + 1 - i] : n \in 3..MaxStudyIds}

\* the participant data given to a study: none; the data of two participants about the
\* entries 1 and 3, with a sample about an entry never requested and one without tag; a
\* sample about entry 1 that is 0.6678 off in every dimension (overall 0.59959); an exact
\* sample about entry 1 and a distant one about entry 3
StudyData ==
  {<<>>,
   <<[participant_id |-> "P001",
      data_list |-> <<[phenomenon_id |-> 1, vector |-> FlowDict, phase |-> "integration"],
                      [phenomenon_id |-> 3, vector |-> to_dict(CORE_PHENOMENA[3].vector),
                       phase |-> "awakening"]>>],
     [participant_id |-> "P002",
      data_list |-> <<[phenomenon_id |-> 77, vector |-> FlowDict, phase |-> "integration"],
                      [vector |-> FlowDict, phase |-> "integration"],
                      [phenomenon_id |-> 1, phase |-> "integration"]>>]>>,
   <<[participant_id |-> "P001",
      data_list |-> <<[phenomenon_id |-> 1, phase |-> "integration",
                       vector |-> [v |-> 322, R |-> 8678, r |-> 1322, C |-> 2322,
                                   S |-> 7678]]>>]>>,
   <<[participant_id |-> "P001",
      data_list |-> <<[phenomenon_id |-> 1, vector |-> FlowDict, phase |-> "integration"]>>],
     [participant_id |-> "P002",
      data_list |-> <<[phenomenon_id |-> 3, phase |-> "awakening",
                       vector |-> [v |-> One, R |-> 0, r |-> One, C |-> One, S |-> 0]]>>]>>}

\* the largest number of entries in all histories of the database operations together
MaxDbHistory == 3

\* an entry of a document whose vector has a fourth decimal
FineEntry ==
  [id |-> 22, term |-> <<"F", "i", "n", "e">>,
   description |-> "imported",
   vector |-> [v |-> Pct(50) + 1, R |-> Pct(50), r |-> Pct(50), C |-> Pct(50), S |-> Pct(50)],
   phase |-> "awakening",
   tags |-> <<>>,
   related_to |-> <<>>]

\* the documents given to import_from_json by the database operations
DbDocuments == Documents \cup {[phenomena |-> <<FineEntry>>, user_states |-> EmptyDict]}

\* the largest number of websockets opened
MaxSockets == 2

\* the type field of the messages a client sends
MessageTypes == {"ping", "analyze", "status"}

\* the largest number of /analyze requests received
MaxRequests == 2

WebDescriptions == {"calm", "rushed"}

\* vectors _description_to_vector can return: the embedding model is outside the
\* program, so the vector of a description is any of these; C is 1 - S / 2
DescriptionVectors ==
  {SynthiumVector(Pct(60), Pct(30), Pct(70), Pct(90), Pct(20)),
   SynthiumVector(Pct(80), Pct(70), Pct(30), Pct(60), Pct(80))}

-----------------------------------------------------------------------------
(* The operations.  call records the operation performed last. *)

Persistent ==
  <<phenomena, user_states, validation_results, user_sessions, requests,
    active_connections, websockets>>

\* the state of the web layer
Web == <<user_sessions, requests, active_connections, websockets>>

\* the state of the websocket endpoint
Sockets == <<active_connections, websockets>>

\* the state the websocket endpoint leaves alone
Service == <<phenomena, user_states, validation_results, user_sessions, requests>>

\* the number of entries in all histories together
history_size(states) == Cardinality(UNION {{u} \X DOMAIN states[u] : u \in DOMAIN states})

\* SynthiumVector(v, R, r, C, S) on the raw numbers drawn by InitVector
Construct ==
  /\ call.op = "input_raw"
  /\ call' = [op |-> "SynthiumVector", raw |-> call.raw,
              ret |-> SynthiumVector(call.raw[1], call.raw[2], call.raw[3],
                                     call.raw[4], call.raw[5])]
  /\ UNCHANGED Persistent

DeterminePhase ==
  /\ call.op = "input_score"
  /\ call' = [op |-> "determine_phase", vector |-> call.vector,
              ret |-> determine_phase(call.vector)]
  /\ UNCHANGED Persistent

CalculateWellbeing ==
  /\ call.op = "input_score"
  /\ call' = [op |-> "calculate_wellbeing", vector |-> call.vector,
              ret |-> calculate_wellbeing(call.vector)]
  /\ UNCHANGED Persistent

CalculateStability ==
  /\ call.op = "input_score"
  /\ call' = [op |-> "calculate_stability", vector |-> call.vector,
              ret |-> calculate_stability(call.vector)]
  /\ UNCHANGED Persistent

\* SynthiumVector.from_dict(data)
FromDict ==
  /\ call.op = "input_dict"
  /\ call' = [op |-> "from_dict", data |-> call.data, ret |-> from_dict(call.data)]
  /\ UNCHANGED Persistent

\* a.distance_to(b) and b.distance_to(a)
DistanceTo ==
  /\ call.op = "input_pair"
  /\ call' = [op |-> "distance_to", a |-> call.a, b |-> call.b,
              ret |-> distance_to(call.a, call.b),
              reverse |-> distance_to(call.b, call.a)]
  /\ UNCHANGED Persistent

\* a.similarity_to(b)
SimilarityTo ==
  /\ call.op = "input_pair"
  /\ call' = [op |-> "similarity_to", a |-> call.a, b |-> call.b,
              ret |-> similarity_to(call.a, call.b)]
  /\ UNCHANGED Persistent

GenerateInsights ==
  /\ call.op = "input_score"
  /\ call' = [op |-> "generate_insights", vector |-> call.vector,
              ret |-> generate_insights(call.vector)]
  /\ UNCHANGED Persistent

GenerateRecommendations ==
  /\ call.op = "input_score"
  /\ call' = [op |-> "generate_recommendations", vector |-> call.vector,
              ret |-> generate_recommendations(call.vector)]
  /\ UNCHANGED Persistent

\* engine.db.find_similar_phenomena(vector, limit)
FindSimilarPhenomena(vector, limit) ==
  /\ call' = [op |-> "find_similar_phenomena", vector |-> vector, limit |-> limit,
              ret |-> find_similar_phenomena(phenomena, vector, limit)]
  /\ UNCHANGED Persistent

\* AnalyzeState recording the analysis in the history of the anonymous user
AnalyzeStateRecording(vector) ==
  /\ call' = [op |-> "analyze_state", vector |-> vector,
              ret |-> analyze_state(phenomena, vector)]
  /\ user_states' = add_user_state(user_states, "anonymous",
                                   [vector |-> to_dict(vector)])
  /\ UNCHANGED <<phenomena, validation_results, Web>>

\* engine.analyze_state(vector)
AnalyzeState(vector) ==
  /\ call' = [op |-> "analyze_state", vector |-> vector,
              ret |-> analyze_state(phenomena, vector)]
  /\ UNCHANGED Persistent

\* engine.create_transformation_plan(current_vector, target_state)
CreateTransformationPlan(current_vector, target_state) ==
  /\ call' = [op |-> "create_transformation_plan", current_vector |-> current_vector,
              target_state |-> target_state,
              ret |-> create_transformation_plan(phenomena, current_vector, target_state)]
  /\ UNCHANGED Persistent

\* ValidatePhenomenon keeping the error payloads too
ValidatePhenomenonKeepErrors(phenomenon_id, empirical_data) ==
  LET result == validate_phenomenon(phenomena, phenomenon_id, empirical_data)
  IN  /\ validation_results' = Append(validation_results, result)
      /\ call' = [op |-> "validate_phenomenon", phenomenon_id |-> phenomenon_id,
                  empirical_data |-> empirical_data, ret |-> result]
      /\ UNCHANGED <<phenomena, user_states, Web>>

\* ValidatePhenomenon keeping no result of an empty sample list
ValidatePhenomenonSkipEmpty(phenomenon_id, empirical_data) ==
  LET result == validate_phenomenon(phenomena, phenomenon_id, empirical_data)
  IN  /\ validation_results' =
           IF "error" \in DOMAIN result \/ empirical_data = <<>> THEN validation_results
           ELSE Append(validation_results, result)
      /\ call' = [op |-> "validate_phenomenon", phenomenon_id |-> phenomenon_id,
                  empirical_data |-> empirical_data, ret |-> result]
      /\ UNCHANGED <<phenomena, user_states, Web>>

\* validator.validate_phenomenon(phenomenon_id, empirical_data)
ValidatePhenomenon(phenomenon_id, empirical_data) ==
  LET result == validate_phenomenon(phenomena, phenomenon_id, empirical_data)
  IN  /\ validation_results' =
           IF "error" \in DOMAIN result THEN validation_results
           ELSE Append(validation_results, result)
      /\ call' = [op |-> "validate_phenomenon", phenomenon_id |-> phenomenon_id,
                  empirical_data |-> empirical_data, ret |-> result]
      /\ UNCHANGED <<phenomena, user_states, Web>>

\* validator._calculate_correlations(predicted_vector, empirical_data)
CalculateCorrelations(predicted_vector, empirical_data) ==
  /\ call' = [op |-> "calculate_correlations", predicted_vector |-> predicted_vector,
              empirical_data |-> empirical_data,
              ret |-> calculate_correlations(predicted_vector, empirical_data)]
  /\ UNCHANGED Persistent

\* validator.run_validation_study(phenomenon_ids, participant_data): every call of
\* validate_phenomenon that finds its entry appends its result
RunValidationStudy(phenomenon_ids, participant_data) ==
  LET calls == study_calls(phenomena, phenomenon_ids, participant_data)
  IN  /\ validation_results' =
           validation_results \o SelectSeq(calls, LAMBDA r : "error" \notin DOMAIN r)
      /\ call' = [op |-> "run_validation_study", phenomenon_ids |-> phenomenon_ids,
                  participant_data |-> participant_data,
                  ret |-> run_validation_study(phenomena, phenomenon_ids, participant_data)]
      /\ UNCHANGED <<phenomena, user_states, Web>>

\* db.add_user_state(user_id, state)
AddUserState(user_id, state) ==
  /\ user_states' = add_user_state(user_states, user_id, state)
  /\ call' = [op |-> "add_user_state", user_id |-> user_id, state |-> state]
  /\ UNCHANGED <<phenomena, validation_results, Web>>

\* db.get_user_history(user_id)
GetUserHistory(user_id) ==
  /\ call' = [op |-> "get_user_history", user_id |-> user_id,
              ret |-> get_user_history(user_states, user_id)]
  /\ UNCHANGED Persistent

\* db.get_phenomenon(phenomenon_id)
GetPhenomenon(phenomenon_id) ==
  /\ call' = [op |-> "get_phenomenon", phenomenon_id |-> phenomenon_id,
              ret |-> get_phenomenon(phenomena, phenomenon_id)]
  /\ UNCHANGED Persistent

\* GET /phenomena/{phenomenon_id}
GetPhenomenonDetail(phenomenon_id) ==
  /\ call' = [op |-> "get_phenomenon_detail", phenomenon_id |-> phenomenon_id,
              ret |-> phenomenon_detail(phenomena, phenomenon_id)]
  /\ UNCHANGED Persistent

\* db.get_user_trajectory(user_id)
GetUserTrajectory(user_id) ==
  /\ call' = [op |-> "get_user_trajectory", user_id |-> user_id,
              ret |-> get_user_trajectory(user_states, user_id)]
  /\ UNCHANGED Persistent

\* db.export_to_json(filepath); ret is the document written to the file
ExportToJson ==
  /\ call' = [op |-> "export_to_json", ret |-> export_to_json(phenomena, user_states)]
  /\ UNCHANGED Persistent

\* db.export_to_json(f); SynthiumDatabase().import_from_json(f); export_to_json(g) on the
\* new database: the document, the new database after the import, the second document
RoundTrip ==
  LET document == export_to_json(phenomena, user_states)
      fresh == import_from_json(load_core_phenomena, EmptyDict, document)
  IN  /\ call' = [op |-> "round_trip", document |-> document, fresh |-> fresh,
                  again |-> export_to_json(fresh.phenomena, fresh.user_states)]
      /\ UNCHANGED Persistent

\* db.import_from_json(filepath), document being the content of the file
ImportFromJson(document) ==
  /\ phenomena' = import_from_json(phenomena, user_states, document).phenomena
  /\ user_states' = import_from_json(phenomena, user_states, document).user_states
  /\ call' = [op |-> "import_from_json", document |-> document]
  /\ UNCHANGED <<validation_results, Web>>

-----------------------------------------------------------------------------
(* src/web_backend/app.py: the handler of POST /analyze.  The handlers of concurrent
   requests run on one event loop and interleave only at an await; the handler has
   a single one, await manager.broadcast, after both appends.  requests is the sequence
   of the requests received, each with the position of its handler: "start" before the
   handler has run, "broadcast" while it waits in manager.broadcast, "done" after it has
   returned, "failed" after it has raised HTTPException. *)

\* a request arrives
ReceiveAnalyze(user_id, description) ==
  /\ requests' = Append(requests, [pc |-> "start", user_id |-> user_id,
                                    description |-> description])
  /\ call' = [op |-> "receive_analyze", request |-> Len(requests) + 1]
  /\ UNCHANGED <<phenomena, user_states, validation_results, user_sessions, Sockets>>

\* AnalyzeRequest without the append to the history of the database
AnalyzeRequestSessionOnly(r, vector) ==
  LET session_entry == [description |-> requests[r].description,
                        vector |-> to_dict(vector),
                        analysis |-> analyze_state(phenomena, vector)]
  IN  /\ requests[r].pc = "start"
      /\ user_sessions' = add_user_state(user_sessions, requests[r].user_id, session_entry)
      /\ requests' = [requests EXCEPT ![r].pc = "broadcast"]
      /\ call' = [op |-> "analyze_request", request |-> r, session_entry |-> session_entry]
      /\ UNCHANGED <<phenomena, user_states, validation_results, Sockets>>

\* the handler from its start to its await: the vector of the description, the analysis,
\* the append to user_sessions and the append to the history of the database
AnalyzeRequest(r, vector) ==
  LET session_entry == [description |-> requests[r].description,
                        vector |-> to_dict(vector),
                        analysis |-> analyze_state(phenomena, vector)]
  IN  /\ requests[r].pc = "start"
      /\ user_sessions' = add_user_state(user_sessions, requests[r].user_id, session_entry)
      /\ user_states' = add_user_state(user_states, requests[r].user_id, session_entry)
      /\ requests' = [requests EXCEPT ![r].pc = "broadcast"]
      /\ call' = [op |-> "analyze_request", request |-> r, session_entry |-> session_entry]
      /\ UNCHANGED <<phenomena, validation_results, Sockets>>

\* _description_to_vector or the analysis raises: the handler raises HTTPException
FailRequest(r) ==
  /\ requests[r].pc = "start"
  /\ requests' = [requests EXCEPT ![r].pc = "failed"]
  /\ call' = [op |-> "fail_request", request |-> r]
  /\ UNCHANGED <<phenomena, user_states, validation_results, user_sessions, Sockets>>

\* manager.broadcast returns and the handler returns its response
RespondRequest(r) ==
  /\ requests[r].pc = "broadcast"
  /\ requests' = [requests EXCEPT ![r].pc = "done"]
  /\ call' = [op |-> "respond_request", request |-> r]
  /\ UNCHANGED <<phenomena, user_states, validation_results, user_sessions, Sockets>>

-----------------------------------------------------------------------------
(* src/web_backend/app.py: ConnectionManager and the handler of the websocket endpoint.
   websockets is the sequence of the websockets opened, each with the position of its
   handler: "accept" in manager.connect before websocket.accept has returned, "welcome"
   before the welcome message is sent, "receive" in websocket.receive_json, "reply"
   before the answer to a message is sent, "terminated" after the handler has ended. *)

RECURSIVE list_remove(_, _)
\* list.remove: the list without the first occurrence of the item
list_remove(list, item) ==
  IF list = <<>> THEN <<>>
  ELSE IF Head(list) = item THEN Tail(list)
  ELSE <<Head(list)>> \o list_remove(Tail(list), item)

\* a client opens a websocket and the handler starts
OpenSocket ==
  /\ websockets' = Append(websockets, [pc |-> "accept"])
  /\ call' = [op |-> "websocket_endpoint", websocket |-> Len(websockets) + 1]
  /\ UNCHANGED <<Service, active_connections>>

\* manager.connect: websocket.accept returns and the websocket is appended
Connect(ws) ==
  /\ websockets[ws].pc = "accept"
  /\ active_connections' = Append(active_connections, ws)
  /\ websockets' = [websockets EXCEPT ![ws].pc = "welcome"]
  /\ call' = [op |-> "connect", websocket |-> ws]
  /\ UNCHANGED Service

\* websocket.accept raises: the handler ends before the append
ConnectFails(ws) ==
  /\ websockets[ws].pc = "accept"
  /\ websockets' = [websockets EXCEPT ![ws].pc = "terminated"]
  /\ call' = [op |-> "connect_fails", websocket |-> ws]
  /\ UNCHANGED <<Service, active_connections>>

\* the welcome message is sent and the loop starts
Welcome(ws) ==
  /\ websockets[ws].pc = "welcome"
  /\ websockets' = [websockets EXCEPT ![ws].pc = "receive"]
  /\ call' = [op |-> "welcome", websocket |-> ws]
  /\ UNCHANGED <<Service, active_connections>>

\* sending the welcome message raises WebSocketDisconnect: the outer handler calls
\* manager.disconnect
WelcomeDisconnect(ws) ==
  /\ websockets[ws].pc = "welcome"
  /\ active_connections' = list_remove(active_connections, ws)
  /\ websockets' = [websockets EXCEPT ![ws].pc = "terminated"]
  /\ call' = [op |-> "disconnect", websocket |-> ws]
  /\ UNCHANGED Service

\* receive_json returns a message: a ping or an analyze message is answered, any other
\* message is dropped
SocketReceive(ws, type) ==
  /\ websockets[ws].pc = "receive"
  /\ websockets' = [websockets EXCEPT
                      ![ws].pc = IF type \in {"ping", "analyze"} THEN "reply" ELSE "receive"]
  /\ call' = [op |-> "receive_json", websocket |-> ws, type |-> type]
  /\ UNCHANGED <<Service, active_connections>>

\* receive_json raises, WebSocketDisconnect when the client has gone: the except Exception
\* of the loop catches it and breaks, and the handler ends
SocketReceiveFails(ws) ==
  /\ websockets[ws].pc = "receive"
  /\ websockets' = [websockets EXCEPT ![ws].pc = "terminated"]
  /\ call' = [op |-> "receive_fails", websocket |-> ws]
  /\ UNCHANGED <<Service, active_connections>>

\* the answer is sent
SocketReply(ws) ==
  /\ websockets[ws].pc = "reply"
  /\ websockets' = [websockets EXCEPT ![ws].pc = "receive"]
  /\ call' = [op |-> "send_json", websocket |-> ws]
  /\ UNCHANGED <<Service, active_connections>>

\* computing or sending the answer raises: the except Exception of the loop catches it
\* and breaks, and the handler ends
SocketReplyFails(ws) ==
  /\ websockets[ws].pc = "reply"
  /\ websockets' = [websockets EXCEPT ![ws].pc = "terminated"]
  /\ call' = [op |-> "send_fails", websocket |-> ws]
  /\ UNCHANGED <<Service, active_connections>>

\* manager.broadcast starts its loop over active_connections; a send that raises is passed
Broadcast ==
  /\ call' = [op |-> "broadcast", connections |-> active_connections]
  /\ UNCHANGED Persistent

-----------------------------------------------------------------------------
(* Specifications *)

InitPersistent ==
  /\ phenomena = load_core_phenomena
  /\ user_states = EmptyDict
  /\ validation_results = <<>>
  /\ user_sessions = EmptyDict
  /\ requests = <<>>
  /\ active_connections = <<>>
  /\ websockets = <<>>

\* the service: the database, the engine and the validator of one process
Init ==
  /\ InitPersistent
  /\ call = [op |-> "init"]

Next ==
  \/ /\ history_size(user_states) < MaxHistory
     /\ \E u \in Users, s \in HistoryStates : AddUserState(u, s)
  \/ \E d \in Documents : ImportFromJson(d)
  \/ \E u \in Users : GetUserHistory(u)
  \/ \E u \in Users : GetUserTrajectory(u)
  \/ ExportToJson
  \/ /\ Len(validation_results) < MaxResults
     /\ \E id \in PhenomenonIds, data \in SampleLists : ValidatePhenomenon(id, data)
  \/ \E v \in SessionVectors, t \in SessionTargets : CreateTransformationPlan(v, t)
  \/ \E v \in AnalyzedVectors : AnalyzeState(v)
  \/ \E v \in SessionVectors, l \in SessionLimits : FindSimilarPhenomena(v, l)

Spec == Init /\ [][Next]_vars

\* the constructor of SynthiumVector on drawn numbers
InitVector ==
  /\ InitPersistent
  /\ \E v \in RawValues, R \in RawValues, r \in RawValues, C \in RawValues, S \in RawValues :
       call = [op |-> "input_raw", raw |-> <<v, R, r, C, S>>]

NextVector == Construct

SpecVector == InitVector /\ [][NextVector]_vars

\* the scoring functions of the engine on a drawn vector
InitScore ==
  /\ InitPersistent
  /\ \E v \in Grid(FineSteps), R \in Grid(FineSteps), r \in Grid(FineSteps),
        C \in Grid(FineSteps), S \in Grid(FineSteps) :
       call = [op |-> "input_score", vector |-> SynthiumVector(v, R, r, C, S)]

NextScore ==
  \/ DeterminePhase
  \/ CalculateWellbeing
  \/ CalculateStability

SpecScore == InitScore /\ [][NextScore]_vars

\* from_dict on a drawn mapping from some of the five keys to numbers
InitDict ==
  /\ InitPersistent
  /\ \E keys \in SUBSET {"v", "R", "r", "C", "S"} : \E data \in [keys -> RawValues] :
       call = [op |-> "input_dict", data |-> data]

NextDict == FromDict

SpecDict == InitDict /\ [][NextDict]_vars

\* distance and similarity of a drawn pair of vectors
InitPair ==
  /\ InitPersistent
  /\ \E a \in Vectors(Grid(CoarseSteps)), b \in PairVectors :
       call = [op |-> "input_pair", a |-> a, b |-> b]

NextPair ==
  \/ DistanceTo
  \/ SimilarityTo

SpecPair == InitPair /\ [][NextPair]_vars

\* the messages of the engine on a drawn vector
NextAdvice ==
  \/ GenerateInsights
  \/ GenerateRecommendations

SpecAdvice == InitScore /\ [][NextAdvice]_vars

\* one call of the engine on the built-in catalog with a drawn vector
InitEngine ==
  /\ InitPersistent
  /\ \E vector \in EngineVectors : call = [op |-> "input_engine", vector |-> vector]

EngineFindSimilar ==
  /\ call.op = "input_engine"
  /\ \E l \in 0..MaxLimit : FindSimilarPhenomena(call.vector, l)

EngineAnalyze ==
  /\ call.op = "input_engine"
  /\ AnalyzeState(call.vector)

EnginePlan ==
  /\ call.op = "input_engine"
  /\ \E t \in TargetNames : CreateTransformationPlan(call.vector, t)

NextEngine ==
  \/ EngineFindSimilar
  \/ EngineAnalyze
  \/ EnginePlan

SpecEngine == InitEngine /\ [][NextEngine]_vars

\* one plan on the built-in catalog from a drawn vector to a name of one of the tables
TablePlan ==
  /\ call.op = "input_engine"
  /\ \E t \in TableNames : CreateTransformationPlan(call.vector, t)

NextTables == TablePlan

SpecTables == InitEngine /\ [][NextTables]_vars

\* the metrics of the validator on a drawn entry and sample list
InitMetrics ==
  /\ InitPersistent
  /\ \E k \in DOMAIN CORE_PHENOMENA, data \in ValidatorSamples :
       call = [op |-> "input_metrics", phenomenon_id |-> CORE_PHENOMENA[k].id,
               empirical_data |-> data]

MetricsValidate ==
  /\ call.op = "input_metrics"
  /\ ValidatePhenomenon(call.phenomenon_id, call.empirical_data)

MetricsCorrelations ==
  /\ call.op = "input_metrics"
  /\ CalculateCorrelations(get_phenomenon(phenomena, call.phenomenon_id).vector,
                           call.empirical_data)

NextMetrics ==
  \/ MetricsValidate
  \/ MetricsCorrelations

SpecMetrics == InitMetrics /\ [][NextMetrics]_vars

\* the metrics of the validator on a drawn entry and samples that repeat the entry
InitSelf ==
  /\ InitPersistent
  /\ \E k \in DOMAIN CORE_PHENOMENA, n \in 1..MaxSamples :
       call = [op |-> "input_metrics", phenomenon_id |-> CORE_PHENOMENA[k].id,
               empirical_data |-> own_samples(CORE_PHENOMENA[k], n)]

SpecSelf == InitSelf /\ [][NextMetrics]_vars

\* validations made one after the other on one validator
NextValidator ==
  /\ Len(validation_results) < MaxValidations
  /\ \E id \in ValidatorIds, data \in SampleLists : ValidatePhenomenon(id, data)

SpecValidator == Init /\ [][NextValidator]_vars

\* one validation study on a new validator
InitStudy ==
  /\ InitPersistent
  /\ \E ids \in StudyIdLists, data \in StudyData :
       call = [op |-> "input_study", phenomenon_ids |-> ids, participant_data |-> data]

NextStudy ==
  /\ call.op = "input_study"
  /\ RunValidationStudy(call.phenomenon_ids, call.participant_data)

SpecStudy == InitStudy /\ [][NextStudy]_vars

\* the operations of the database
NextDb ==
  \/ /\ history_size(user_states) < MaxDbHistory
     /\ \E u \in Users, s \in HistoryStates : AddUserState(u, s)
  \/ \E u \in Users : GetUserHistory(u)
  \/ \E u \in Users : GetUserTrajectory(u)
  \/ ExportToJson
  \/ \E d \in DbDocuments : ImportFromJson(d)
  \/ RoundTrip

SpecDb == Init /\ [][NextDb]_vars

\* lookups in a catalog that imports may have extended
NextCatalog ==
  \/ \E d \in DbDocuments : ImportFromJson(d)
  \/ \E id \in LookupIds : GetPhenomenon(id)
  \/ \E id \in LookupIds : GetPhenomenonDetail(id)

SpecCatalog == Init /\ [][NextCatalog]_vars

\* websockets opened, served and ended, and broadcasts between them
NextSocket ==
  \/ /\ Len(websockets) < MaxSockets
     /\ OpenSocket
  \/ \E ws \in DOMAIN websockets : Connect(ws)
  \/ \E ws \in DOMAIN websockets : ConnectFails(ws)
  \/ \E ws \in DOMAIN websockets : Welcome(ws)
  \/ \E ws \in DOMAIN websockets : WelcomeDisconnect(ws)
  \/ \E ws \in DOMAIN websockets, type \in MessageTypes : SocketReceive(ws, type)
  \/ \E ws \in DOMAIN websockets : SocketReceiveFails(ws)
  \/ \E ws \in DOMAIN websockets : SocketReply(ws)
  \/ \E ws \in DOMAIN websockets : SocketReplyFails(ws)
  \/ Broadcast

SpecSocket == Init /\ [][NextSocket]_vars

\* concurrent /analyze requests on one service
NextWeb ==
  \/ /\ Len(requests) < MaxRequests
     /\ \E u \in Users, d \in WebDescriptions : ReceiveAnalyze(u, d)
  \/ \E r \in DOMAIN requests, v \in DescriptionVectors : AnalyzeRequest(r, v)
  \/ \E r \in DOMAIN requests : FailRequest(r)
  \/ \E r \in DOMAIN requests : RespondRequest(r)

SpecWeb == Init /\ [][NextWeb]_vars

-----------------------------------------------------------------------------
(* Properties *)

\* C1: constructing a SynthiumVector from any five numbers yields five fields in [0,1]:
\* a number below 0 becomes 0, one above 1 becomes 1, one in [0,1] is kept.
C1_ClampTotal ==
  call.op = "SynthiumVector" =>
    \A i \in 1..5 :
      LET x == call.raw[i]
          y == call.ret[Dims[i]]
      IN  /\ y >= 0 /\ y <= One
          /\ x < 0 => y = 0
          /\ x > One => y = One
          /\ (x >= 0 /\ x <= One) => y = x

\* the case of test_vector_clamping: v = 1.5 and R = -0.5 with the others 0.5
C1_Witness ==
  /\ call.op = "SynthiumVector"
  /\ call.raw = <<Pct(150), 0 - Pct(50), Pct(50), Pct(50), Pct(50)>>
  /\ call.ret = [v |-> One, R |-> 0, r |-> Pct(50), C |-> Pct(50), S |-> Pct(50)]

\* the position of the entry with this id in the catalog's iteration order
CatalogIndex(id) == CHOOSE i \in DOMAIN phenomena : phenomena[i].id = id

\* C2: find_similar_phenomena(query, limit) returns min(limit, catalog size) pairs of a
\* catalog entry and its similarity, in non-increasing similarity; no omitted entry is
\* strictly more similar than an included one; equal similarities keep catalog order.
C2_Ranking ==
  call.op = "find_similar_phenomena" =>
    LET ret == call.ret
        included == {ret[i].phenomenon.id : i \in DOMAIN ret}
    IN  /\ Len(ret) = Min(call.limit, Len(phenomena))
        /\ \A i \in DOMAIN ret :
             /\ \E k \in DOMAIN phenomena : ret[i].phenomenon = phenomena[k]
             /\ ret[i].similarity = 0 - distance_to(call.vector, ret[i].phenomenon.vector)
        /\ \A i, j \in DOMAIN ret :
             i < j =>
               /\ ret[i].similarity >= ret[j].similarity
               /\ ret[i].similarity = ret[j].similarity =>
                    CatalogIndex(ret[i].phenomenon.id) < CatalogIndex(ret[j].phenomenon.id)
        /\ \A k \in DOMAIN phenomena :
             phenomena[k].id \notin included =>
               \A i \in DOMAIN ret :
                 0 - distance_to(call.vector, phenomena[k].vector) <= ret[i].similarity

\* a truncated ranking with two neighbours of equal similarity and an omitted entry as
\* similar as the last included one
C2_Witness ==
  /\ call.op = "find_similar_phenomena"
  /\ call.limit > 0 /\ call.limit < Len(phenomena)
  /\ Len(call.ret) = call.limit
  /\ \E i \in DOMAIN call.ret :
       i < call.limit /\ call.ret[i].similarity = call.ret[i + 1].similarity
  /\ \E k \in DOMAIN phenomena :
       /\ \A i \in DOMAIN call.ret : call.ret[i].phenomenon.id # phenomena[k].id
       /\ 0 - distance_to(call.vector, phenomena[k].vector) = call.ret[call.limit].similarity

FlowStateTerm == <<"F", "l", "o", "w", " ", "S", "t", "a", "t", "e">>

\* C3: the first result of find_similar_phenomena is a catalog entry at minimal distance
\* from the query; the query (0.7,0.2,0.8,0.9,0.1) returns Flow State first with
\* similarity 1.0, and (0.65,0.25,0.75,0.85,0.15) with limit 3 returns Flow State first.
C3_NearestFirst ==
  (call.op = "find_similar_phenomena" /\ call.limit >= 1) =>
    /\ call.ret # <<>>
    /\ \A k \in DOMAIN phenomena :
         distance_to(call.vector, call.ret[1].phenomenon.vector)
           <= distance_to(call.vector, phenomena[k].vector)
    /\ call.vector = SynthiumVector(Pct(70), Pct(20), Pct(80), Pct(90), Pct(10)) =>
         /\ call.ret[1].phenomenon.term = FlowStateTerm
         /\ call.ret[1].similarity = 0
    /\ (call.vector = NearFlow /\ call.limit = 3) =>
         call.ret[1].phenomenon.term = FlowStateTerm

\* test_find_similar
C3_Witness ==
  /\ call.op = "find_similar_phenomena"
  /\ call.vector = NearFlow
  /\ call.limit = 3
  /\ Len(call.ret) = 3
  /\ call.ret[1].phenomenon.id = 1
  /\ call.ret[1].similarity < 0

\* C4: determine_phase returns one of the four phases, the first whose rule matches in the
\* order dissolution, transcendence, integration, else awakening; (0.1,0.0,0.9,0.9,0.0)
\* matches the first three rules and yields dissolution.
C4_PhaseFirstMatch ==
  call.op = "determine_phase" =>
    LET x == call.vector
        dissolution == x.v < Pct(20) /\ x.R < Pct(20) /\ x.r > Pct(80)
        transcendence == x.S < Pct(30) /\ x.C > Pct(70) /\ x.r > Pct(70)
        integration == x.S < Pct(50) /\ x.C > Pct(50) /\ x.r > Pct(50)
    IN  /\ call.ret \in {"dissolution", "transcendence", "integration", "awakening"}
        /\ call.ret = "dissolution" <=> dissolution
        /\ call.ret = "transcendence" <=> (~dissolution /\ transcendence)
        /\ call.ret = "integration" <=> (~dissolution /\ ~transcendence /\ integration)
        /\ call.ret = "awakening" <=> (~dissolution /\ ~transcendence /\ ~integration)
        /\ x = SynthiumVector(Pct(10), 0, Pct(90), Pct(90), 0) =>
             (call.ret = "dissolution" /\ transcendence /\ integration)

C4_Witness ==
  /\ call.op = "determine_phase"
  /\ call.vector = SynthiumVector(Pct(10), 0, Pct(90), Pct(90), 0)
  /\ call.ret = "dissolution"

GoodVector == SynthiumVector(Pct(50), Pct(10), Pct(90), Pct(90), Pct(10))

BadVector == SynthiumVector(Pct(90), Pct(90), Pct(10), Pct(10), Pct(90))

\* C5: for every vector in [0,1]^5, calculate_wellbeing and calculate_stability lie in
\* [0,1] and equal their weighted sums (the clamp changes nothing); the wellbeing of
\* (0.5,0.1,0.9,0.9,0.1) is greater than that of (0.9,0.9,0.1,0.1,0.9).
C5_ScoresInRange ==
  LET x == call.vector
  IN  /\ call.op = "calculate_wellbeing" =>
           /\ call.ret >= 0 /\ call.ret <= ScoreOne
           /\ call.ret = 3 * x.r + 3 * x.C + 2 * (One - x.R) + 2 * (One - x.S)
           /\ x = GoodVector => call.ret > calculate_wellbeing(BadVector)
           /\ x = BadVector => call.ret < calculate_wellbeing(GoodVector)
      /\ call.op = "calculate_stability" =>
           /\ call.ret >= 0 /\ call.ret <= ScoreOne
           /\ call.ret = 4 * (One - x.S) + 4 * x.C + 2 * (One - x.R)

\* test_wellbeing_calculation: the wellbeing of the good vector is 0.9
C5_Witness ==
  /\ call.op = "calculate_wellbeing"
  /\ call.vector = GoodVector
  /\ call.ret = 9 * One

IsPlan == call.op = "create_transformation_plan"

IsResolvedPlan == IsPlan /\ "error" \notin DOMAIN call.ret

\* the lower-cased keys of the predefined table
PredefinedKeys == {PREDEFINED_VECTORS[i].key : i \in DOMAIN PREDEFINED_VECTORS}

\* the catalog positions whose display name equals the name up to case
TermMatches(name) == {k \in DOMAIN phenomena : lower(phenomena[k].term) = lower(name)}

C6_Resolved ==
  IsPlan =>
    LET name == call.target_state
        matches == TermMatches(name)
    IN  IF lower(name) \in PredefinedKeys
        THEN /\ IsResolvedPlan
             /\ \E i \in DOMAIN PREDEFINED_VECTORS :
                  /\ PREDEFINED_VECTORS[i].key = lower(name)
                  /\ call.ret.target_state = to_dict(PREDEFINED_VECTORS[i].vector)
        ELSE IF matches # {}
        THEN /\ IsResolvedPlan
             /\ \E k \in matches :
                  /\ \A m \in matches : k <= m
                  /\ call.ret.target_state = to_dict(phenomena[k].vector)
        ELSE DOMAIN call.ret = {"error"}

\* C6: create_transformation_plan resolves the target name against the predefined table
\* first and, only when it is absent there, against the catalog by display name without
\* regard to case; when neither resolves, the payload has the single entry 'error'; the
\* call leaves the catalog and the logs as they were.
C6_TargetResolution ==
  /\ []C6_Resolved
  /\ [][call'.op = "create_transformation_plan" => UNCHANGED Persistent]_vars

\* an unknown target asked of a service with an imported entry and a kept result
C6_Witness ==
  /\ IsPlan
  /\ call.target_state = <<"n", "i", "r", "v", "a", "n", "a">>
  /\ DOMAIN call.ret = {"error"}
  /\ Len(phenomena) = Len(CORE_PHENOMENA) + 1
  /\ validation_results # <<>>

\* the square of the distance between the current vector and the resolved target
PlanSquare ==
  LET c == call.current_vector
      g == call.ret.target_state
  IN  (g.v - c.v) * (g.v - c.v) + (g.R - c.R) * (g.R - c.R) + (g.r - c.r) * (g.r - c.r)
        + (g.C - c.C) * (g.C - c.C) + (g.S - c.S) * (g.S - c.S)

\* the bucket of a distance d given by its square q
BucketOfSquare(q) ==
  IF 4 * q < One * One THEN "easy"
  ELSE IF q < One * One THEN "moderate"
  ELSE IF 4 * q < 9 * One * One THEN "challenging"
  ELSE "profound"

\* the bucket of a distance given in the unit of the vectors
BucketOfDistance(d) ==
  IF 2 * d < One THEN "easy"
  ELSE IF d < One THEN "moderate"
  ELSE IF 2 * d < 3 * One THEN "challenging"
  ELSE "profound"

\* C7 as stated: the difficulty reported in a plan is the bucket of the distance reported
\* in the same plan.
C7_ReportedBucket ==
  IsResolvedPlan => call.ret.estimated_difficulty = BucketOfDistance(call.ret.distance)

\* C7, amended: the difficulty is the bucket of the unrounded distance d (d < 0.5 easy,
\* 0.5 <= d < 1.0 moderate, 1.0 <= d < 1.5 challenging, d >= 1.5 profound), the reported
\* distance is d rounded to three decimals, and the difficulty is the bucket of the
\* reported distance unless d lies below a breakpoint and rounds to it, where it is the
\* bucket below that breakpoint.
C7_Difficulty ==
  IsResolvedPlan =>
    LET q == PlanSquare
        reported == call.ret.distance
        difficulty == call.ret.estimated_difficulty
    IN  /\ difficulty = BucketOfSquare(q)
        /\ 2 * reported > Milli => (2 * reported - Milli) * (2 * reported - Milli) <= 4 * q
        /\ 4 * q <= (2 * reported + Milli) * (2 * reported + Milli)
        /\ difficulty # BucketOfDistance(reported) =>
             /\ reported \in {One \div 2, One, One + One \div 2}
             /\ q < reported * reported
             /\ difficulty = BucketOfDistance(reported - Milli)

\* a plan at the distance 0.5 exactly
C7_Witness ==
  /\ IsResolvedPlan
  /\ 4 * PlanSquare = One * One
  /\ call.ret.distance = One \div 2
  /\ call.ret.estimated_difficulty = "moderate"

\* the exact change of a dimension in a plan
PlanDelta(d) == call.ret.target_state[d] - call.current_vector[d]

DimIndex(d) == CHOOSE i \in DOMAIN Dims : Dims[i] = d

BurnoutToPeace ==
  /\ IsResolvedPlan
  /\ call.current_vector = predefined_get(lower(<<"b", "u", "r", "n", "o", "u", "t">>))
  /\ call.target_state = <<"p", "e", "a", "c", "e">>

C9_NonEasyHasSteps ==
  IsResolvedPlan =>
    /\ call.ret.estimated_difficulty # "easy" => Len(call.ret.steps) >= 1
    /\ 4 * PlanSquare >= One * One => Len(call.ret.steps) >= 1
    /\ call.ret.steps = <<>> => call.ret.estimated_difficulty = "easy"
    /\ BurnoutToPeace =>
         /\ {"current_state", "target_state", "distance", "steps"} \subseteq DOMAIN call.ret
         /\ call.ret.steps # <<>>

\* test_transformation_plan
C9_Witness ==
  /\ BurnoutToPeace
  /\ call.ret.estimated_difficulty # "easy"
  /\ Len(call.ret.steps) = 5

\* a validation of a catalog entry against no samples
EmptyValidation(c) ==
  /\ c.op = "validate_phenomenon"
  /\ c.empirical_data = <<>>
  /\ \E k \in DOMAIN phenomena : phenomena[k].id = c.phenomenon_id

C10_ZeroMetrics ==
  EmptyValidation(call) =>
    /\ call.ret.validation_passed = FALSE
    /\ call.ret.validation_metrics.vector_correlation = 0
    /\ call.ret.validation_metrics.phase_accuracy = 0
    /\ call.ret.validation_metrics.wellbeing_correlation = 0
    /\ call.ret.sample_size = 0

\* C10: validate_phenomenon for an id of the catalog and an empty sample list returns
\* validation_passed false, the three metrics 0.0 and sample_size 0, and appends the
\* result to validation_results.
C10_EmptySamples ==
  /\ []C10_ZeroMetrics
  /\ [][EmptyValidation(call') => validation_results' = Append(validation_results, call'.ret)]_vars

C10_Witness ==
  /\ EmptyValidation(call)
  /\ call.phenomenon_id = 21
  /\ validation_results = <<call.ret>>
  /\ call.ret.validation_passed = FALSE

\* the ids of the catalog
CatalogIds == {phenomena[k].id : k \in DOMAIN phenomena}

IsValidation(c) == c.op = "validate_phenomenon"

C11_ErrorPayload ==
  (IsValidation(call) /\ call.phenomenon_id \notin CatalogIds) => DOMAIN call.ret = {"error"}

\* C11: validate_phenomenon with an id absent from the catalog returns a payload whose only
\* entry is 'error' and appends nothing to validation_results; with an id present it
\* appends exactly one result and changes no earlier result.
C11_ValidationLog ==
  /\ []C11_ErrorPayload
  /\ [][IsValidation(call') =>
          IF call'.phenomenon_id \in CatalogIds
          THEN /\ Len(validation_results') = Len(validation_results) + 1
               /\ \A i \in DOMAIN validation_results :
                    validation_results'[i] = validation_results[i]
               /\ validation_results'[Len(validation_results')] = call'.ret
               /\ "error" \notin DOMAIN call'.ret
          ELSE validation_results' = validation_results]_vars

\* an id of no catalog validated after a result was kept, and a second result kept
C11_Witness ==
  \/ /\ IsValidation(call)
     /\ call.phenomenon_id = 99
     /\ DOMAIN call.ret = {"error"}
     /\ Len(validation_results) = 1
  \/ /\ IsValidation(call)
     /\ call.phenomenon_id = 3
     /\ Len(validation_results) = 2
     /\ validation_results[1].phenomenon_id = 1
     /\ validation_results[2] = call.ret

\* the samples of a list that carry a phase label, and those whose label is the phase
Labelled(data) == {i \in DOMAIN data : "phase" \in DOMAIN data[i]}

Matching(data, phase) == {i \in Labelled(data) : data[i]["phase"] = phase}

\* C12: validation_passed is true exactly when the overall correlation is >= 0.7, the phase
\* accuracy is >= 0.8 and the wellbeing correlation is >= 0.6; the phase accuracy is the
\* number of samples whose label equals the phase of the entry over the number of samples
\* that carry a label, 0 when none does.  The three quantities are the values the three
\* metric functions return.
C12_PassCriteria ==
  (IsValidation(call) /\ "error" \notin DOMAIN call.ret) =>
    LET data == call.empirical_data
        entry == get_phenomenon(phenomena, call.phenomenon_id)
        labelled == Cardinality(Labelled(data))
        matching == Cardinality(Matching(data, entry.phase))
        overall == calculate_correlations(entry.vector, data)["overall"]
        wellbeing == calculate_wellbeing_correlation(entry.vector, data)
    IN  /\ call.ret.validation_passed <=>
             /\ overall >= Pct(70)
             /\ labelled > 0 /\ 10 * matching >= 8 * labelled
             /\ 10 * wellbeing.num >= 6 * wellbeing.den
        /\ call.ret.validation_metrics.vector_correlation = overall
        /\ call.ret.validation_metrics.phase_accuracy =
             IF labelled = 0 THEN 0 ELSE RoundDiv(matching * 1000, labelled) * Milli

\* four matching labels of five, a sixth sample without label: accuracy 0.8, passed
C12_Witness ==
  /\ IsValidation(call)
  /\ call.phenomenon_id = 1
  /\ Len(call.empirical_data) = 6
  /\ Cardinality(Labelled(call.empirical_data)) = 5
  /\ call.ret.validation_metrics.phase_accuracy = Pct(80)
  /\ call.ret.validation_passed

IsCorrelations == call.op = "calculate_correlations"

\* the vectors of the samples that carry one, as the code reads them
SampleVectors ==
  LET with_vector == SelectSeq(call.empirical_data, LAMBDA e : "vector" \in DOMAIN e)
  IN  [i \in DOMAIN with_vector |-> from_dict(with_vector[i]["vector"])]

\* n times the difference between the predicted value and the mean of the n sample values
ScaledDifference(d) ==
  Len(SampleVectors) * call.predicted_vector[d]
    - SumSeq([i \in DOMAIN SampleVectors |-> SampleVectors[i][d]])

\* C13 as stated: a per-dimension correlation lies in (0,1] and equals 1 only when the
\* predicted value exactly equals the empirical mean.
C13_OneOnlyWhenExact ==
  (IsCorrelations /\ SampleVectors # <<>>) =>
    \A d \in {"v", "R", "r", "C", "S"} :
      /\ call.ret[d] > 0 /\ call.ret[d] <= One
      /\ call.ret[d] = One => ScaledDifference(d) = 0

\* C13, amended: for a sample list with at least one vector, each per-dimension correlation
\* returned is 1/(1+|predicted - mean|) rounded to three decimals, lies in (0,1], equals 1
\* when the predicted value equals the empirical mean and also when the difference is so
\* small that the score rounds to 1.000; the overall score is the unweighted mean of the
\* five unrounded scores, rounded to three decimals.
C13_Correlations ==
  (IsCorrelations /\ SampleVectors # <<>>) =>
    LET n == Len(SampleVectors)
    IN  /\ \A d \in {"v", "R", "r", "C", "S"} :
             LET diff == Abs(ScaledDifference(d))
             IN  /\ call.ret[d] = RoundDiv(1000 * n * One, n * One + diff) * Milli
                 /\ call.ret[d] > 0 /\ call.ret[d] <= One
                 /\ diff = 0 => call.ret[d] = One
                 /\ call.ret[d] = One <=> 1999 * diff <= n * One
        /\ Abs(5 * call.ret["overall"]
                 - (call.ret["v"] + call.ret["R"] + call.ret["r"] + call.ret["C"]
                      + call.ret["S"])) <= 5 * Milli
        /\ call.ret["overall"] > 0 /\ call.ret["overall"] <= One

\* a predicted value 0.0004 from the sample value whose correlation is returned as 1.0
C13_Witness ==
  /\ IsCorrelations
  /\ Len(SampleVectors) = 1
  /\ Abs(ScaledDifference("v")) = 4
  /\ call.ret["v"] = One
  /\ call.ret["overall"] = One

IsStudy == call.op = "run_validation_study"

\* the number of samples of all participants tagged with the id
TaggedCount(pid) ==
  LET data == call.participant_data
  IN  Cardinality(UNION {{<<p, i>> : i \in {j \in DOMAIN data[p].data_list :
                                              /\ "phenomenon_id" \in DOMAIN data[p].data_list[j]
                                              /\ data[p].data_list[j]["phenomenon_id"] = pid}} :
                         p \in DOMAIN data})

\* the positions of the id list whose id is in the catalog, and the ids requested
ValidPositions == {i \in DOMAIN call.phenomenon_ids : call.phenomenon_ids[i] \in CatalogIds}

RequestedIds == {call.phenomenon_ids[i] : i \in DOMAIN call.phenomenon_ids}

\* C14 as stated: total_phenomena equals the number of entry ids given.
C14_TotalIsLength ==
  IsStudy => call.ret.summary.total_phenomena = Len(call.phenomenon_ids)

\* C14, amended: run_validation_study puts each sample into the group of the id it is
\* tagged with and no other, ignores samples tagged with ids that were not requested,
\* validates each element of the id list once in the order given (an id given twice is
\* validated twice and keeps two results), and reports a summary in which passed + failed =
\* total_phenomena and total_phenomena is the number of distinct ids given.
C14_Study ==
  IsStudy =>
    LET ids == call.phenomenon_ids
        results == call.ret.detailed_results
        summary == call.ret.summary
    IN  /\ {results[i].pid : i \in DOMAIN results} = RequestedIds
        /\ Len(results) = Cardinality(RequestedIds)
        /\ \A i \in DOMAIN results :
             IF results[i].pid \in CatalogIds
             THEN /\ results[i].result.phenomenon_id = results[i].pid
                  /\ results[i].result.sample_size = TaggedCount(results[i].pid)
             ELSE DOMAIN results[i].result = {"error"}
        /\ Len(validation_results) = Cardinality(ValidPositions)
        /\ \A k \in DOMAIN validation_results :
             \E i \in ValidPositions :
               /\ Cardinality({j \in ValidPositions : j <= i}) = k
               /\ validation_results[k].phenomenon_id = ids[i]
               /\ validation_results[k].sample_size = TaggedCount(ids[i])
        /\ summary.total_phenomena = Cardinality(RequestedIds)
        /\ summary.passed + summary.failed = summary.total_phenomena
        /\ summary.passed =
             Cardinality({i \in DOMAIN results :
                            /\ results[i].pid \in CatalogIds
                            /\ results[i].result.validation_passed})

\* an id given twice, with data holding samples of an unrequested id and without tag
C14_Witness ==
  /\ IsStudy
  /\ call.phenomenon_ids = <<1, 1>>
  /\ TaggedCount(77) = 1
  /\ TaggedCount(1) = 2
  /\ Len(validation_results) = 2
  /\ call.ret.summary.total_phenomena = 1
  /\ call.ret.summary.passed = 1

\* the requested ids of the catalog whose reported overall correlation is below 0.6, in
\* the order of the results
LowCorrelation ==
  LET low == SelectSeq(call.ret.detailed_results,
                       LAMBDA it : /\ "error" \notin DOMAIN it.result
                                   /\ it.result.validation_metrics.vector_correlation < Pct(60))
  IN  [i \in DOMAIN low |-> low[i].pid]

\* C15: run_validation_study emits a recommendation exactly when the overall correlation
\* of at least one validated entry is below 0.6; it is a single message listing at most
\* the first 5 such ids in request order; otherwise the list of recommendations is empty.
C15_Recommendation ==
  IsStudy =>
    LET recommendations == call.ret.recommendations
    IN  IF LowCorrelation = <<>> THEN recommendations = <<>>
        ELSE /\ Len(recommendations) = 1
             /\ recommendations[1].ids = SubSeq(LowCorrelation, 1, Min(5, Len(LowCorrelation)))

IsPrefix(a, b) == Len(a) <= Len(b) /\ \A i \in DOMAIN a : a[i] = b[i]

\* C16 as stated: after any database operation every history only grows.
C16_OnlyGrows ==
  [][\A u \in DOMAIN user_states :
       u \in DOMAIN user_states' /\ IsPrefix(user_states[u], user_states'[u])]_vars

\* C16, amended: add_user_state appends the state to the end of the history of its user
\* and leaves every other history unchanged; get_user_history, get_user_trajectory and
\* export_to_json change no history, so under these every entry ever appended stays, in
\* append order; import_from_json replaces all histories by the user_states of the
\* document, by none when the document has no such key.
C16_Histories ==
  [][/\ call'.op = "add_user_state" =>
          /\ DOMAIN user_states' = DOMAIN user_states \cup {call'.user_id}
          /\ user_states'[call'.user_id] =
               Append(IF call'.user_id \in DOMAIN user_states
                      THEN user_states[call'.user_id] ELSE <<>>, call'.state)
          /\ \A u \in DOMAIN user_states \ {call'.user_id} : user_states'[u] = user_states[u]
     /\ call'.op \in {"get_user_history", "get_user_trajectory", "export_to_json",
                      "round_trip"} =>
          user_states' = user_states
     /\ call'.op = "import_from_json" =>
          user_states' = IF "user_states" \in DOMAIN call'.document
                         THEN call'.document["user_states"] ELSE EmptyDict]_vars

\* a second entry appended for one user while another user has a history
C16_Witness ==
  /\ call.op = "add_user_state"
  /\ DOMAIN user_states = {"anonymous", "u1"}
  /\ Len(user_states[call.user_id]) = 2
  /\ user_states[call.user_id][2] = call.state

BuiltInCatalog ==
  /\ Len(phenomena) = 20
  /\ \A i \in 1..20 : phenomena[i] = CORE_PHENOMENA[i] /\ phenomena[i].id = i

\* C18 as stated: in every reachable state the catalog holds exactly the 20 built-in
\* entries.
C18_CatalogFixed == BuiltInCatalog

C18_InitialCatalog == call.op = "init" => BuiltInCatalog

\* the ids of the entries of the document of an import
DocumentIds(document) ==
  IF "phenomena" \in DOMAIN document
  THEN {document["phenomena"][i].id : i \in DOMAIN document["phenomena"]}
  ELSE {}

\* C18, amended: the database is initialised with exactly the 20 built-in entries, ids
\* 1..20; no operation other than import_from_json adds, removes or changes a catalog
\* entry; import_from_json adds the entries of its document, replaces the entries whose id
\* the document names, removes none and leaves every other entry as it was.
C18_Catalog ==
  /\ []C18_InitialCatalog
  /\ [][IF call'.op = "import_from_json"
        THEN /\ \A i \in DOMAIN phenomena :
                  /\ i \in DOMAIN phenomena'
                  /\ phenomena'[i].id = phenomena[i].id
                  /\ phenomena[i].id \notin DocumentIds(call'.document) =>
                       phenomena'[i] = phenomena[i]
             /\ {phenomena'[i].id : i \in DOMAIN phenomena'} =
                  {phenomena[i].id : i \in DOMAIN phenomena} \cup DocumentIds(call'.document)
             /\ \A i, j \in DOMAIN phenomena' :
                  phenomena'[i].id = phenomena'[j].id => i = j
        ELSE phenomena' = phenomena]_vars

\* an operation of the validator on a catalog that an import has extended
C18_Witness ==
  /\ call.op = "validate_phenomenon"
  /\ Len(phenomena) = 21
  /\ phenomena[21].id = 21
  /\ \A i \in 1..20 : phenomena[i] = CORE_PHENOMENA[i]

\* C19: exporting a database and importing the document into a new database reproduces
\* every catalog entry (id, term, description, the five vector fields, phase, tags,
\* related_to) and the user_states; exporting the new database yields the same document.
C19_RoundTrip ==
  call.op = "round_trip" =>
    /\ call.fresh.phenomena = phenomena
    /\ call.fresh.user_states = user_states
    /\ call.again = call.document

\* the similarities reported by an analysis, in order
C20_Analysis ==
  call.op = "analyze_state" =>
    LET similar == call.ret.similar_phenomena
    IN  /\ Len(similar) = 5
        /\ \A i, j \in DOMAIN similar : i < j => similar[i].similarity >= similar[j].similarity
        /\ \A i \in DOMAIN similar :
             \E k \in DOMAIN phenomena : phenomena[k].term = similar[i].phenomenon
        /\ call.ret.vector = to_dict(call.vector)
        /\ call.ret = analyze_state(phenomena, call.vector)

\* C20: analyze_state changes neither the catalog nor any user history nor the given
\* vector; its result is a function of the vector and the catalog; its similar_phenomena
\* list has exactly 5 entries in non-increasing similarity.
C20_AnalyzePure ==
  /\ []C20_Analysis
  /\ [][call'.op = "analyze_state" =>
          /\ UNCHANGED <<phenomena, user_states, validation_results, user_sessions>>
          /\ call'.ret.vector = to_dict(call'.vector)]_vars

\* an analysis made while a history and an imported entry exist
C20_Witness ==
  /\ call.op = "analyze_state"
  /\ call.vector = NearFlow
  /\ user_states # EmptyDict
  /\ Len(phenomena) = 21
  /\ Len(call.ret.similar_phenomena) = 5
  /\ call.ret.similar_phenomena[1].similarity > call.ret.similar_phenomena[5].similarity

\* the requests of a user whose handler has passed its append step
Appended(reqs, u) ==
  {r \in DOMAIN reqs : reqs[r].user_id = u /\ reqs[r].pc \in {"broadcast", "done"}}

HistoryOf(states, u) == IF u \in DOMAIN states THEN states[u] ELSE <<>>

C17_Counts ==
  \A u \in Users :
    /\ Len(HistoryOf(user_states, u)) = Cardinality(Appended(requests, u))
    /\ HistoryOf(user_sessions, u) = HistoryOf(user_states, u)

\* C17: under any interleaving of concurrent /analyze requests no history append is lost
\* or duplicated: when n requests of a user have passed their append step, the history of
\* the user in the database has exactly n entries, in the order of the appends, and the
\* session list and the history received each entry in the same atomic step.
C17_NoLostAppend ==
  /\ []C17_Counts
  /\ [][\A u \in Users :
          LET passing == Appended(requests', u) \ Appended(requests, u)
          IN  IF passing = {}
              THEN /\ HistoryOf(user_states', u) = HistoryOf(user_states, u)
                   /\ HistoryOf(user_sessions', u) = HistoryOf(user_sessions, u)
              ELSE \E r \in passing :
                     /\ passing = {r}
                     /\ call'.session_entry.description = requests[r].description
                     /\ user_states'[u] = Append(HistoryOf(user_states, u), call'.session_entry)
                     /\ user_sessions'[u] =
                          Append(HistoryOf(user_sessions, u), call'.session_entry)]_vars

\* two requests of one user have appended, the second received first, and the first
\* received still waits in its broadcast after the other has returned
C17_Witness ==
  /\ Len(requests) = 2
  /\ requests[1].user_id = "u1" /\ requests[2].user_id = "u1"
  /\ requests[1].pc = "broadcast" /\ requests[2].pc = "done"
  /\ Len(user_states["u1"]) = 2
  /\ user_states["u1"][1].description = requests[2].description
  /\ user_states["u1"][2].description = requests[1].description
  /\ requests[1].description # requests[2].description

\* the messages of the six rules, in the order of the rules, and the fallback message
RuleMessages ==
  <<"Consider slowing down - rushing against resistance creates friction",
    "Focus on rest and simplification to restore capacity",
    "Seek connection - reach out, share, or practice self-compassion",
    "Create structure - write, organize, or clarify priorities",
    "You have capacity available - consider what you're avoiding",
    "You're in a powerful state - this is a moment for deep work or presence">>

Fallback == "Continue current path - system is balanced"

\* the rules that fire on a vector
FiringRules(vector) ==
  {k \in DOMAIN RuleMessages :
     \/ k = 1 /\ vector.v > Pct(70) /\ vector.R > Pct(60)
     \/ k = 2 /\ vector.C < Pct(40) /\ vector.S > Pct(60)
     \/ k = 3 /\ vector.r < Pct(40)
     \/ k = 4 /\ vector.S > Pct(70)
     \/ k = 5 /\ vector.v < Pct(30) /\ vector.C > Pct(70)
     \/ k = 6 /\ vector.S < Pct(30) /\ vector.C > Pct(70) /\ vector.r > Pct(70)}

\* C21: generate_recommendations returns a non-empty list; the fallback message is in it
\* exactly when no rule fires and is then its only element; otherwise the list holds the
\* message of every rule that fires, each once, in the order of the rules.
C21_Recommendations ==
  call.op = "generate_recommendations" =>
    LET ret == call.ret
        firing == FiringRules(call.vector)
        fallback == {i \in DOMAIN ret : ret[i] = Fallback}
    IN  /\ Len(ret) >= 1
        /\ (fallback # {}) <=> (firing = {})
        /\ firing = {} => ret = <<Fallback>>
        /\ firing # {} =>
             /\ Len(ret) = Cardinality(firing)
             /\ \A i \in DOMAIN ret : \E k \in firing : ret[i] = RuleMessages[k]
             /\ \A k \in firing : \E i \in DOMAIN ret : ret[i] = RuleMessages[k]
             /\ \A i, j \in DOMAIN ret : \A k, l \in firing :
                  (i < j /\ ret[i] = RuleMessages[k] /\ ret[j] = RuleMessages[l]) => k < l

\* a vector on which the first, third and fourth rule fire and the others do not
C21_Witness ==
  /\ call.op = "generate_recommendations"
  /\ call.vector = SynthiumVector(Pct(80), Pct(70), Pct(30), Pct(40), Pct(80))
  /\ call.ret = <<RuleMessages[1], RuleMessages[3], RuleMessages[4]>>

\* the low and high threshold of each dimension
InsightThresholds ==
  [v |-> [low |-> Pct(20), high |-> Pct(80)],
   R |-> [low |-> Pct(30), high |-> Pct(70)],
   r |-> [low |-> Pct(30), high |-> Pct(70)],
   C |-> [low |-> Pct(30), high |-> Pct(80)],
   S |-> [low |-> Pct(30), high |-> Pct(70)]]

\* the dimension a message of generate_insights speaks of
InsightDimension(msg) ==
  CASE msg \in {"High velocity detected - you may be rushing or in urgency mode",
                "Very low velocity - experiencing stuckness or paralysis"} -> "v"
    [] msg \in {"Significant resistance present - friction or trauma blocking flow",
                "Low resistance - experiencing ease and acceptance"} -> "R"
    [] msg \in {"Strong resonance - feeling connected and in tune",
                "Low resonance - experiencing disconnection or isolation"} -> "r"
    [] msg \in {"Depleted capacity - need for rest and restoration",
                "High capacity - energized and ready for action"} -> "C"
    [] msg \in {"High entropy - experiencing confusion or chaos",
                "Low entropy - clarity and order present"} -> "S"
    [] OTHER -> "none"

\* C22: generate_insights gives at most one message per dimension, none for a value from
\* the low to the high threshold of the dimension, so at most 5 messages, in the order
\* velocity, resistance, resonance, capacity, entropy; the midpoint vector gives none.
C22_Insights ==
  call.op = "generate_insights" =>
    LET ret == call.ret
        outside == {d \in {"v", "R", "r", "C", "S"} :
                      \/ call.vector[d] < InsightThresholds[d].low
                      \/ call.vector[d] > InsightThresholds[d].high}
    IN  /\ Len(ret) <= 5
        /\ {InsightDimension(ret[i]) : i \in DOMAIN ret} = outside
        /\ \A i, j \in DOMAIN ret :
             i < j => DimIndex(InsightDimension(ret[i])) < DimIndex(InsightDimension(ret[j]))
        /\ call.vector = SynthiumVector(Pct(50), Pct(50), Pct(50), Pct(50), Pct(50))
             => ret = <<>>

\* a vector with every value outside its thresholds: five messages, in dimension order
C22_Witness ==
  /\ call.op = "generate_insights"
  /\ call.vector = SynthiumVector(Pct(90), Pct(20), Pct(80), Pct(20), Pct(80))
  /\ [i \in DOMAIN call.ret |-> InsightDimension(call.ret[i])] = <<"v", "R", "r", "C", "S">>

\* the largest squared distance in the unit cube, 5.0: the square of max_distance
MaxSquare == 5 * One * One

\* a and b are opposite corners of the unit cube
Opposite(a, b) ==
  \A d \in {"v", "R", "r", "C", "S"} : a[d] \in {0, One} /\ b[d] = One - a[d]

\* C23: for vectors with fields in [0, 1] the squared distance is at most 5 and the
\* similarity 1 - distance / sqrt(5) lies in [0, 1]; it is 0 exactly when the vectors are
\* opposite corners of the unit cube.  A similarity s is carried as -q with q the squared
\* distance: s >= 0 is q <= 5, s <= 1 is q >= 0, s = 0 is q = 5.
C23_SimilarityRange ==
  /\ call.op = "distance_to" =>
       /\ call.ret >= 0 /\ call.ret <= MaxSquare
       /\ (call.ret = MaxSquare) <=> Opposite(call.a, call.b)
  /\ call.op = "similarity_to" =>
       /\ 0 - call.ret >= 0 /\ 0 - call.ret <= MaxSquare
       /\ (0 - call.ret = MaxSquare) <=> Opposite(call.a, call.b)
       /\ round3_similarity(call.ret) >= 0 /\ round3_similarity(call.ret) <= One

\* the similarity of the zero vector and the one vector of test_vector_distance
C23_Witness ==
  /\ call.op = "similarity_to"
  /\ call.a = SynthiumVector(0, 0, 0, 0, 0)
  /\ call.b = SynthiumVector(One, One, One, One, One)
  /\ 0 - call.ret = MaxSquare
  /\ round3_similarity(call.ret) = 0

\* C24: distance_to(a, a) = 0, distance_to(a, b) = distance_to(b, a), distance_to(a, b) = 0
\* only when a and b have equal fields, and similarity_to(a, a) = 1.0 (carried as 0).
C24_Metric ==
  /\ call.op = "distance_to" =>
       /\ call.a = call.b => call.ret = 0
       /\ call.ret = call.reverse
       /\ call.ret = 0 => call.a = call.b
  /\ call.op = "similarity_to" =>
       (call.a = call.b => call.ret = 0 /\ round3_similarity(call.ret) = One)

\* the distance of two vectors that differ in one field only, taken both ways
C24_Witness ==
  /\ call.op = "distance_to"
  /\ call.a = SynthiumVector(One \div 2, One, 0, One, 0)
  /\ call.b = SynthiumVector(0, One, 0, One, 0)
  /\ call.ret > 0
  /\ call.ret = call.reverse

\* C25: from_dict gives a vector for a mapping that lacks some or all of the keys v, R, r,
\* C, S: each missing field is 0.5 and each present field is its value clamped into [0, 1].
C25_FromDict ==
  call.op = "from_dict" =>
    /\ DOMAIN call.ret = {"v", "R", "r", "C", "S"}
    /\ \A d \in DOMAIN call.ret :
         IF d \in DOMAIN call.data
         THEN /\ call.data[d] < 0 => call.ret[d] = 0
              /\ call.data[d] > One => call.ret[d] = One
              /\ (call.data[d] >= 0 /\ call.data[d] <= One) => call.ret[d] = call.data[d]
         ELSE 2 * call.ret[d] = One

\* a mapping with two keys only, one value below 0 and one above 1
C25_Witness ==
  /\ call.op = "from_dict"
  /\ DOMAIN call.data = {"R", "C"}
  /\ call.data["R"] < 0 /\ call.data["C"] > One
  /\ call.ret = [v |-> One \div 2, R |-> 0, r |-> One \div 2, C |-> One, S |-> One \div 2]

\* the positions of a related_to list whose id the catalog has
Kept(related_to) == {k \in DOMAIN related_to : related_to[k] \in CatalogIds}

C26_Lookups ==
  /\ (call.op = "get_phenomenon" /\ call.phenomenon_id \notin CatalogIds) => call.ret = None
  /\ (call.op = "get_phenomenon" /\ call.phenomenon_id \in CatalogIds) =>
       call.ret.id = call.phenomenon_id
  /\ (call.op = "get_phenomenon_detail" /\ call.phenomenon_id \in CatalogIds) =>
       LET related == call.ret.related_phenomena
           kept == Kept(call.ret.related_to)
       IN  /\ Len(related) = Cardinality(kept)
           /\ \A k \in kept :
                LET entry == related[Cardinality({j \in kept : j <= k})]
                IN  /\ entry.id = call.ret.related_to[k]
                    /\ \E i \in DOMAIN phenomena :
                         /\ phenomena[i].id = entry.id
                         /\ phenomena[i].term = entry.term
                         /\ phenomena[i].description = entry.description

\* C26: looking up an id the catalog lacks gives an empty result and changes no state;
\* resolving the related entries of a phenomenon gives the related ids the catalog has,
\* in related_to order, and skips the ids it lacks.
C26_TolerantLookups ==
  /\ []C26_Lookups
  /\ [][call'.op \in {"get_phenomenon", "get_phenomenon_detail"} =>
          UNCHANGED <<phenomena, user_states, validation_results, user_sessions, requests>>]_vars

\* the detail of an imported entry with one related id the catalog has and one it lacks
C26_Witness ==
  /\ call.op = "get_phenomenon_detail"
  /\ call.phenomenon_id = 21
  /\ call.phenomenon_id \in CatalogIds
  /\ call.ret.related_to = <<5, 77>>
  /\ Len(call.ret.related_phenomena) = 1
  /\ call.ret.related_phenomena[1].id = 5

\* the websockets of active_connections
Active == {active_connections[i] : i \in DOMAIN active_connections}

\* C27: every websocket that connect added to active_connections is removed from it once
\* its handler has terminated, so after all handlers have terminated active_connections is
\* empty and broadcast never iterates over a websocket whose handler has terminated.
C27_RemovedOnTermination ==
  /\ \A ws \in DOMAIN websockets : websockets[ws].pc = "terminated" => ws \notin Active
  /\ call.op = "broadcast" =>
       \A i \in DOMAIN call.connections : websockets[call.connections[i]].pc # "terminated"

\* every sample carries the vector and the phase label of the entry and no wellbeing
OwnSamples(phenomenon, data) ==
  /\ data # <<>>
  /\ \A i \in DOMAIN data :
       /\ DOMAIN data[i] = {"vector", "phase"}
       /\ data[i]["vector"] = to_dict(phenomenon.vector)
       /\ data[i]["phase"] = phenomenon.phase

\* C28: for every catalog entry, validate_phenomenon with a non-empty sample list in which
\* every sample carries the entry's own vector and phase label and no reported wellbeing
\* gives vector_correlation 1.0, phase_accuracy 1.0, wellbeing_correlation 1.0 and
\* validation_passed true.
C28_SelfValidation ==
  (/\ IsValidation(call)
   /\ call.phenomenon_id \in CatalogIds
   /\ OwnSamples(get_phenomenon(phenomena, call.phenomenon_id), call.empirical_data)) =>
    /\ call.ret.validation_metrics.vector_correlation = One
    /\ call.ret.validation_metrics.phase_accuracy = One
    /\ call.ret.validation_metrics.wellbeing_correlation = One
    /\ call.ret.validation_passed

\* the entry Burnout validated against three samples that repeat it
C28_Witness ==
  /\ IsValidation(call)
  /\ call.phenomenon_id = 2
  /\ Len(call.empirical_data) = 3
  /\ OwnSamples(get_phenomenon(phenomena, 2), call.empirical_data)
  /\ call.ret.validation_passed
  /\ Len(validation_results) = 1

\* the positions of the entry with this id in a ranking
RankOf(ret, id) == {i \in DOMAIN ret : ret[i].phenomenon.id = id}

\* the entry with id `later` is not ranked before the entry with id `earlier`
NotBefore(ret, later, earlier) ==
  \A i \in RankOf(ret, later) : \E j \in RankOf(ret, earlier) : j < i

\* C29: with the built-in catalog, for every query vector Presence (id 16) is never ranked
\* before Inner Peace (id 5) and This (id 20) never before Sakshatakara (id 18): each
\* pair shares one vector and ties keep catalog order; so Presence and This are never the
\* top result of find_similar_phenomena, not even for their own vector.
C29_ShadowedEntries ==
  (call.op = "find_similar_phenomena" /\ phenomena = CORE_PHENOMENA) =>
    /\ get_phenomenon(phenomena, 16).vector = get_phenomenon(phenomena, 5).vector
    /\ get_phenomenon(phenomena, 20).vector = get_phenomenon(phenomena, 18).vector
    /\ NotBefore(call.ret, 16, 5)
    /\ NotBefore(call.ret, 20, 18)
    /\ call.ret # <<>> => call.ret[1].phenomenon.id \notin {16, 20}

\* the vector of This as the query: Sakshatakara first, This second, both at distance 0
C29_Witness ==
  /\ call.op = "find_similar_phenomena"
  /\ call.vector = CORE_PHENOMENA[20].vector
  /\ call.limit = 2
  /\ call.ret[1].phenomenon.id = 18 /\ call.ret[2].phenomenon.id = 20
  /\ call.ret[1].similarity = 0 /\ call.ret[2].similarity = 0

\* the names the claim lists, as keys of the predefined table
SharedNames ==
  {<<"b", "u", "r", "n", "o", "u", "t">>,
   <<"d", "e", "p", "r", "e", "s", "s", "i", "o", "n">>,
   <<"a", "n", "x", "i", "e", "t", "y">>,
   <<"g", "r", "i", "e", "f">>,
   <<"j", "o", "y">>,
   <<"l", "o", "v", "e">>,
   <<"c", "o", "n", "f", "u", "s", "i", "o", "n">>,
   <<"c", "l", "a", "r", "i", "t", "y">>}

\* C30: every target name that resolves in the predefined table and, without regard to
\* case, as a term of the built-in catalog is one of burnout, depression, anxiety, grief,
\* joy, love, confusion, clarity, and both tables hold the same vector for it, so the
\* plan is the same whichever table is asked first.
C30_TablesAgree ==
  (IsPlan /\ phenomena = CORE_PHENOMENA) =>
    LET name == lower(call.target_state)
        matches == TermMatches(call.target_state)
    IN  /\ (name \in PredefinedKeys /\ matches # {}) <=> name \in SharedNames
        /\ (name \in PredefinedKeys /\ matches # {}) =>
             /\ \A k \in matches :
                  /\ phenomena[k].vector = predefined_get(name)
                  /\ call.ret.target_state = to_dict(phenomena[k].vector)
             /\ resolve_target(phenomena, call.target_state)
                  = resolve_target_catalog_first(phenomena, call.target_state)

\* a plan to Grief, asked by its display name, which both tables resolve
C30_Witness ==
  /\ IsPlan
  /\ call.target_state = <<"G", "r", "i", "e", "f">>
  /\ call.current_vector = NearFlow
  /\ call.ret.target_state = to_dict(get_phenomenon(phenomena, 6).vector)
  /\ call.ret.target_state = to_dict(predefined_get(<<"g", "r", "i", "e", "f">>))

====
